---------------------------- MODULE Spec2Model ----------------------------
(***************************************************************************)
(* A model of the stinger MCP bridge (stinger_python_utils/mcp/server.py): *)
(* the instance registry, the name codec, the signal mailboxes, the        *)
(* catalog builders and the dispatcher.                                    *)
(*                                                                         *)
(* Strings of the program are sequences of one-character strings, so that  *)
(* sanitising, prefix tests and slicing are computed character by          *)
(* character as the code computes them.                                    *)
(***************************************************************************)
EXTENDS Integers, Sequences, FiniteSets, TLC

(***************************************************************************)
(* Bounds of the model                                                     *)
(***************************************************************************)
\* client handles the client factories may build in one run
MaxClients == 2
\* signal payloads delivered in the mailbox runs: N + k, k > 0
MaxBurst == 12
\* client handles built in the mailbox runs
MailboxClients == 1
\* client handles built in the codec runs
CodecClients == 1
\* methods, and properties, a plugin of the codec runs declares at most
MaxCaps == 2
\* characters of an instance identifier in the sanitize runs
MaxIdLen == 3
\* client handles built in the dispatch runs
DispatchClients == 1

(***************************************************************************)
(* Program constants                                                       *)
(***************************************************************************)
SIGNAL_MAILBOX_SIZE == 10
\* _resolve_future(future, timeout=30.0)
FUTURE_TIMEOUT == 30

(***************************************************************************)
(* Strings                                                                 *)
(***************************************************************************)
Lower == {"a", "b", "c", "d", "e", "f", "g", "h", "i", "j", "k", "l", "m",
          "n", "o", "p", "q", "r", "s", "t", "u", "v", "w", "x", "y", "z"}
Upper == {"A", "B", "C", "D", "E", "F", "G", "H", "I", "J", "K", "L", "M",
          "N", "O", "P", "Q", "R", "S", "T", "U", "V", "W", "X", "Y", "Z"}
Digit == {"0", "1", "2", "3", "4", "5", "6", "7", "8", "9"}

\* the character class [A-Za-z0-9_] of _sanitize's pattern
IdentChar == Lower \cup Upper \cup Digit \cup {"_"}

\* str.startswith
StartsWith(s, p) == Len(p) <= Len(s) /\ SubSeq(s, 1, Len(p)) = p

\* s[n:]
DropPrefix(s, n) == SubSeq(s, n + 1, Len(s))

\* faulty variant: every character that is no letter or digit is escaped
\* as "_x"
RECURSIVE SanitizeEscapes(_)
SanitizeEscapes(value) ==
    IF value = <<>> THEN <<>>
    ELSE (IF Head(value) \in Lower \cup Upper \cup Digit
          THEN <<Head(value)>> ELSE <<"_", "x">>)
         \o SanitizeEscapes(Tail(value))

\* re.sub(r"[^A-Za-z0-9_]", "_", value)
Sanitize(value) ==
    [i \in 1..Len(value) |-> IF value[i] \in IdentChar THEN value[i] ELSE "_"]

\* faulty variant: the key is built from the raw names
InstanceKeyRaw(plugin_name, instance_id) ==
    plugin_name \o <<"_">> \o instance_id

\* f"{_sanitize(plugin_name)}_{_sanitize(instance_id)}"
InstanceKey(plugin_name, instance_id) ==
    Sanitize(plugin_name) \o <<"_">> \o Sanitize(instance_id)


(***************************************************************************)
(* Capability descriptors and plugins (plugin.py)                          *)
(***************************************************************************)
\* SignalDefinition(name, description="")
SignalDefinition(name, description) ==
    [name |-> name, description |-> description]

\* PropertyDefinition(name, schema, readonly=True, description="")
PropertyDefinition(name, schema, readonly, description) ==
    [name |-> name, schema |-> schema, readonly |-> readonly,
     description |-> description]

\* MethodDefinition(name, arguments_schema, description="")
MethodDefinition(name, arguments_schema, description) ==
    [name |-> name, arguments_schema |-> arguments_schema,
     description |-> description]

\* A concrete StingerMCPPlugin: its name, its three capability lists, and the
\* optional hooks its client class exposes: receive_<signal> for the names in
\* receive_hooks, <property>_changed for the names in changed_hooks.
Plugin(name, signals, properties, methods, receive_hooks, changed_hooks) ==
    [name |-> name, signals |-> signals, properties |-> properties,
     methods |-> methods, receive_hooks |-> receive_hooks,
     changed_hooks |-> changed_hooks]

\* names used by the plugins of the registry runs
N_a == <<"a">>
N_a_b == <<"a", "_", "b">>
N_b == <<"b">>
N_c == <<"c">>
N_b_c == <<"b", "_", "c">>
N_bDc == <<"b", "-", "c">>
N_m == <<"m">>
N_n == <<"n">>
N_p == <<"p">>
N_r == <<"r">>
N_t == <<"t">>
N_c_t == <<"c", "_", "t">>
N_set_p == <<"s", "e", "t", "_", "p">>
N_setDp == <<"s", "e", "t", "-", "p">>
N_x == <<"x">>
N_pDq == <<"p", "-", "q">>
N_p_q == <<"p", "_", "q">>

\* The plugins loaded at startup in the registry runs: "a" and "a_b".
RegistryPlugins ==
    << Plugin(N_a,
              << SignalDefinition(N_m, <<>>), SignalDefinition(N_n, <<"N">>) >>,
              << PropertyDefinition(N_p, "schema_p", FALSE, <<>>),
                 PropertyDefinition(N_r, "schema_r", TRUE, <<"R">>) >>,
              << MethodDefinition(N_t, "schema_t", <<"T">>),
                 MethodDefinition(N_c_t, "schema_c_t", <<>>) >>,
              {N_m, N_n}, {N_p}),
       Plugin(N_a_b,
              << SignalDefinition(N_m, <<>>) >>,
              << PropertyDefinition(N_p, "schema_p", FALSE, <<"P">>) >>,
              << MethodDefinition(N_set_p, "schema_set_p", <<>>) >>,
              {}, {}) >>

\* what the discoverers of the registry runs may announce, as <<plugin,
\* instance identifier>>: "a"/"b", "a"/"b_c", "a"/"b-c" and "a_b"/"c"
RegistryAnnounced == {<<1, N_b>>, <<1, N_b_c>>, <<1, N_bDc>>, <<2, N_c>>}

(***************************************************************************)
(* State                                                                   *)
(***************************************************************************)
VARIABLES
    plugins,    \* self._plugins: the loaded plugins, fixed after startup
    instances,  \* self._instances: the dict, as its items in insertion order
    heap,       \* the InstanceState objects built so far, by handle number
    lock,       \* self._lock: "free" or the name of the context holding it
    dthread,    \* the discovery delivery contexts: position and locals
    loop,       \* the protocol server's context: position and locals
    pending,    \* the tool call suspended in _resolve_future, if any
    reply,      \* the response a handler has just produced
    env         \* what the remote side has delivered so far

vars == <<plugins, instances, heap, lock, dthread, loop, pending, reply, env>>

Threads == {1, 2}

DName(t) == IF t = 1 THEN "d1" ELSE "d2"

\* a Python dict as the sequence of its items, oldest insertion first
DictHas(d, k) == \E i \in 1..Len(d) : d[i].key = k

DictIndex(d, k) == CHOOSE i \in 1..Len(d) : d[i].key = k

\* dict.get(k): the value, or 0 for None
DictGet(d, k) == IF DictHas(d, k) THEN d[DictIndex(d, k)].state ELSE 0

\* d[k] = v: a new key goes last, a present key keeps its place
DictSet(d, k, v) ==
    IF DictHas(d, k)
    THEN [d EXCEPT ![DictIndex(d, k)].state = v]
    ELSE Append(d, [key |-> k, state |-> v])

\* d.pop(k, None)
DictPop(d, k) == SelectSeq(d, LAMBDA e : e.key # k)

(***************************************************************************)
(* SignalMailbox                                                           *)
(***************************************************************************)
\* faulty variant: a full mailbox refuses the new entry
MailboxAppendDropsNewest(entries, data) ==
    IF Len(entries) >= SIGNAL_MAILBOX_SIZE THEN entries
    ELSE Append(entries, data)

\* deque(maxlen=SIGNAL_MAILBOX_SIZE).append: a full deque discards its
\* leftmost entry. The entry's timestamp is the wall clock read at capture;
\* nothing in the program reads it back, and an entry is modelled by its data.
MailboxAppend(entries, data) ==
    IF Len(entries) >= SIGNAL_MAILBOX_SIZE
    THEN Append(Tail(entries), data)
    ELSE Append(entries, data)

(***************************************************************************)
(* Discovery callbacks (called on the MQTT thread)                         *)
(***************************************************************************)
DIdle == [pc |-> "idle", plugin |-> 0, instance_id |-> <<>>, key |-> <<>>,
          state |-> 0]

\* names of a capability list
NamesOf(defs) == {defs[i].name : i \in 1..Len(defs)}

\* appeared deliveries that may still build a client
Building == {t \in Threads : dthread[t].pc \in {"disc_check", "disc_build"}}

\* faulty variant: the block is entered whoever holds the lock
AcquireUnguarded(who) == lock' = who

\* a context enters a "with self._lock" block
Acquire(who) ==
    /\ lock = "free"
    /\ lock' = who

\* env.last: for each key under observation, the discovery event delivered
\* last ("appeared", "departed", or "none" so far); no key is observed
\* unless a specification starts with some
NoneObserved == [k \in {} |-> "none"]

Delivered(last, key, event) ==
    [k \in DOMAIN last |-> IF k = key THEN event ELSE last[k]]

\* _on_discovered, lines 414-418: the key of the announced instance is
\* computed and the lock is taken for the membership test
OnDiscovered(t, p, iid, limit) ==
    /\ reply.kind = "none"
    /\ dthread[t].pc = "idle"
    /\ Len(heap) + Cardinality(Building) < limit
    /\ Acquire(DName(t))
    /\ dthread' = [dthread EXCEPT ![t] =
            [pc |-> "disc_check", plugin |-> p, instance_id |-> iid,
             key |-> InstanceKey(plugins[p].name, iid), state |-> 0]]
    /\ env' = [env EXCEPT !.last =
                  Delivered(@, InstanceKey(plugins[p].name, iid), "appeared")]
    /\ UNCHANGED <<plugins, instances, heap, loop, pending, reply>>

\* faulty variant: the membership test is missing
AlreadyTrackedNever(insts, key) == FALSE

\* line 419: if key in self._instances
AlreadyTracked(insts, key) == DictHas(insts, key)

\* faulty variant: the early return for a tracked key keeps the lock
DiscoveredCheckKeepsLock(t) ==
    /\ reply.kind = "none"
    /\ dthread[t].pc = "disc_check"
    /\ lock = DName(t)
    /\ lock' = IF AlreadyTracked(instances, dthread[t].key) THEN lock
               ELSE "free"
    /\ dthread' = [dthread EXCEPT ![t] =
            IF AlreadyTracked(instances, dthread[t].key) THEN DIdle
            ELSE [dthread[t] EXCEPT !.pc = "disc_build"]]
    /\ UNCHANGED <<plugins, instances, heap, loop, pending, reply, env>>

\* lines 419-425: an already tracked key is ignored
DiscoveredCheck(t) ==
    /\ reply.kind = "none"
    /\ dthread[t].pc = "disc_check"
    /\ lock = DName(t)
    /\ lock' = "free"
    /\ dthread' = [dthread EXCEPT ![t] =
            IF AlreadyTracked(instances, dthread[t].key) THEN DIdle
            ELSE [dthread[t] EXCEPT !.pc = "disc_build"]]
    /\ UNCHANGED <<plugins, instances, heap, loop, pending, reply, env>>

\* faulty variant: a re-appearing instance takes over the mailboxes of the
\* state built last for the same plugin and instance id
NewInstanceStateKeepsMailboxes(plugin, p, iid, handle, reads) ==
    LET earlier == {h \in 1..Len(heap) :
                       heap[h].plugin = p /\ heap[h].instance_id = iid}
        last == CHOOSE h \in earlier : \A g \in earlier : g <= h
    IN [plugin_name |-> plugin.name,
        plugin |-> p,
        instance_id |-> iid,
        client |-> handle,
        signal_mailboxes |->
            IF earlier = {} THEN [s \in NamesOf(plugin.signals) |-> <<>>]
            ELSE heap[last].signal_mailboxes,
        property_cache |-> [q \in NamesOf(plugin.properties) |->
                               IF reads[q] = "raise" THEN "None" ELSE reads[q]],
        receive_cbs |-> NamesOf(plugin.signals) \cap plugin.receive_hooks,
        changed_cbs |-> NamesOf(plugin.properties) \cap plugin.changed_hooks,
        sent |-> [s \in NamesOf(plugin.signals) |-> 0]]

\* lines 429-475: the state built for a discovered instance. reads gives, for
\* each declared property, what plugin.read_property returned ("raise" when it
\* raised, which leaves None in the cache).
NewInstanceState(plugin, p, iid, handle, reads) ==
    [plugin_name |-> plugin.name,
     plugin |-> p,
     instance_id |-> iid,
     client |-> handle,
     signal_mailboxes |-> [s \in NamesOf(plugin.signals) |-> <<>>],
     property_cache |-> [q \in NamesOf(plugin.properties) |->
                            IF reads[q] = "raise" THEN "None" ELSE reads[q]],
     \* the callbacks registered on the client
     receive_cbs |-> NamesOf(plugin.signals) \cap plugin.receive_hooks,
     changed_cbs |-> NamesOf(plugin.properties) \cap plugin.changed_hooks,
     \* payloads the remote instance has sent, per signal
     sent |-> [s \in NamesOf(plugin.signals) |-> 0]]

\* lines 427-475: build the client, the mailboxes and the property cache;
\* outcomes are the results the initial property reads may have
DiscoveredBuild(t, outcomes) ==
    /\ reply.kind = "none"
    /\ dthread[t].pc = "disc_build"
    /\ LET plugin == plugins[dthread[t].plugin]
           handle == Len(heap) + 1
       IN \E reads \in [NamesOf(plugin.properties) -> outcomes] :
            /\ heap' = Append(heap, NewInstanceState(plugin, dthread[t].plugin,
                                  dthread[t].instance_id, handle, reads))
            /\ dthread' = [dthread EXCEPT ![t].pc = "disc_lock2",
                                          ![t].state = handle]
    /\ UNCHANGED <<plugins, instances, lock, loop, pending, reply, env>>

\* line 477: with self._lock
DiscoveredLock2(t) ==
    /\ reply.kind = "none"
    /\ dthread[t].pc = "disc_lock2"
    /\ Acquire(DName(t))
    /\ dthread' = [dthread EXCEPT ![t].pc = "disc_insert"]
    /\ UNCHANGED <<plugins, instances, heap, loop, pending, reply, env>>

\* line 478: self._instances[key] = state
DiscoveredInsert(t) ==
    /\ reply.kind = "none"
    /\ dthread[t].pc = "disc_insert"
    /\ lock = DName(t)
    /\ lock' = "free"
    /\ instances' = DictSet(instances, dthread[t].key, dthread[t].state)
    /\ dthread' = [dthread EXCEPT ![t] = DIdle]
    /\ UNCHANGED <<plugins, heap, loop, pending, reply, env>>

\* _on_removed, lines 484-488: the key is computed and the lock is taken
OnRemoved(t, p, iid) ==
    /\ reply.kind = "none"
    /\ dthread[t].pc = "idle"
    /\ Acquire(DName(t))
    /\ dthread' = [dthread EXCEPT ![t] =
            [pc |-> "rem_pop", plugin |-> p, instance_id |-> iid,
             key |-> InstanceKey(plugins[p].name, iid), state |-> 0]]
    /\ env' = [env EXCEPT !.last =
                  Delivered(@, InstanceKey(plugins[p].name, iid), "departed")]
    /\ UNCHANGED <<plugins, instances, heap, loop, pending, reply>>

\* line 489: self._instances.pop(key, None)
RemovedPopEntry(insts, key) == DictPop(insts, key)

\* faulty variant: the departure cancels the calls in flight
RemovedPopCancels(t) ==
    /\ reply.kind = "none"
    /\ dthread[t].pc = "rem_pop"
    /\ lock = DName(t)
    /\ lock' = "free"
    /\ instances' = RemovedPopEntry(instances, dthread[t].key)
    /\ dthread' = [dthread EXCEPT ![t] = DIdle]
    /\ loop' = IF loop.pc = "call_exec"
               THEN [loop EXCEPT !.target = [found |-> FALSE, state |-> 0,
                                             kind |-> "", item |-> <<>>]]
               ELSE loop
    /\ pending' = [active |-> FALSE,
                   call |-> [fn |-> "", client |-> 0, item |-> <<>>,
                             arguments |-> ""],
                   elapsed |-> 0, outcome |-> [tag |-> "waiting", v |-> ""]]
    /\ UNCHANGED <<plugins, heap, reply, env>>

\* lines 484-489: self._instances.pop(key, None) under the lock
RemovedPop(t) ==
    /\ reply.kind = "none"
    /\ dthread[t].pc = "rem_pop"
    /\ lock = DName(t)
    /\ lock' = "free"
    /\ instances' = RemovedPopEntry(instances, dthread[t].key)
    /\ dthread' = [dthread EXCEPT ![t] = DIdle]
    /\ UNCHANGED <<plugins, heap, loop, pending, reply, env>>

(***************************************************************************)
(* Callbacks registered on a client handle                                 *)
(***************************************************************************)
\* faulty variant: the callbacks are closures over the loop variable, so each
\* appends to the mailbox made last, that of the last declared signal
SignalCbLateBinding(c, s, limit) ==
    /\ reply.kind = "none"
    /\ c \in 1..Len(heap)
    /\ s \in heap[c].receive_cbs
    /\ env.signals < limit
    /\ LET data == heap[c].sent[s] + 1
           signals == plugins[heap[c].plugin].signals
           last == signals[Len(signals)].name
       IN heap' = [heap EXCEPT
                ![c].sent[s] = data,
                ![c].signal_mailboxes[last] =
                    MailboxAppend(heap[c].signal_mailboxes[last], data)]
    /\ env' = [env EXCEPT !.signals = @ + 1]
    /\ UNCHANGED <<plugins, instances, lock, dthread, loop, pending, reply>>

\* _make_signal_cb: _cb(**kwargs) appends to the mailbox it was made for.
\* The payload is the ordinal of the signal among those the remote sent.
SignalCb(c, s, limit) ==
    /\ reply.kind = "none"
    /\ c \in 1..Len(heap)
    /\ s \in heap[c].receive_cbs
    /\ env.signals < limit
    /\ LET data == heap[c].sent[s] + 1
       IN heap' = [heap EXCEPT
                ![c].sent[s] = data,
                ![c].signal_mailboxes[s] =
                    MailboxAppend(heap[c].signal_mailboxes[s], data)]
    /\ env' = [env EXCEPT !.signals = @ + 1]
    /\ UNCHANGED <<plugins, instances, lock, dthread, loop, pending, reply>>

\* _make_prop_cb: _cb(value) overwrites the cache entry it was made for
PropertyChangedCb(c, q, limit) ==
    /\ reply.kind = "none"
    /\ c \in 1..Len(heap)
    /\ q \in heap[c].changed_cbs
    /\ env.changes < limit
    /\ heap' = [heap EXCEPT ![c].property_cache[q] = "v2"]
    /\ env' = [env EXCEPT !.changes = @ + 1]
    /\ UNCHANGED <<plugins, instances, lock, dthread, loop, pending, reply>>

(***************************************************************************)
(* Tools                                                                   *)
(***************************************************************************)
\* f"{pn}_{iid}_": the prefix of the tool names of an instance
ToolPrefix(state) ==
    Sanitize(state.plugin_name) \o <<"_">> \o Sanitize(state.instance_id)
        \o <<"_">>

\* lines 188-198: the tool of a declared method
MethodTool(state, mdef) ==
    [name |-> ToolPrefix(state) \o Sanitize(mdef.name),
     description |->
        IF mdef.description # <<>> THEN mdef.description
        ELSE <<"Call", mdef.name, "on", state.plugin_name, "instance",
               state.instance_id>>,
     inputSchema |-> mdef.arguments_schema]

\* lines 202-212: the setter tool of a declared property
SetterTool(state, pdef) ==
    [name |-> ToolPrefix(state) \o <<"s", "e", "t", "_">> \o Sanitize(pdef.name),
     description |->
        IF pdef.description # <<>> THEN pdef.description
        ELSE <<"Set", pdef.name, "on", state.plugin_name, "instance",
               state.instance_id>>,
     inputSchema |-> pdef.schema]

\* faulty variant: read-only properties get a setter tool too
GetsSetterAlways(pdef) == TRUE

\* line 201: if not pdef.readonly
GetsSetter(pdef) == ~pdef.readonly

\* lines 184-212: the tools of one instance, methods first
InstanceTools(state) ==
    LET plugin == plugins[state.plugin]
        writable == SelectSeq(plugin.properties, GetsSetter)
    IN [i \in 1..Len(plugin.methods) |-> MethodTool(state, plugin.methods[i])]
       \o [i \in 1..Len(writable) |-> SetterTool(state, writable[i])]

RECURSIVE ToolsFrom(_, _)
ToolsFrom(insts, i) ==
    IF i > Len(insts) THEN <<>>
    ELSE InstanceTools(heap[insts[i].state]) \o ToolsFrom(insts, i + 1)

\* _build_tool_list: for state in self._instances.values()
BuildToolList(insts) == ToolsFrom(insts, 1)

NoTarget == [found |-> FALSE, state |-> 0, kind |-> "", item |-> <<>>]

Target(state, kind, item) ==
    [found |-> TRUE, state |-> state, kind |-> kind, item |-> item]

\* lines 236-238: the first declared method whose sanitized name is remainder
FirstMethod(methods, remainder) ==
    LET hits == {i \in 1..Len(methods) : Sanitize(methods[i].name) = remainder}
    IN IF hits = {} THEN 0 ELSE CHOOSE i \in hits : \A j \in hits : i <= j

\* faulty variant: the readonly flag is not looked at
FirstWritableOrReadonly(properties, prop_token) ==
    LET hits == {i \in 1..Len(properties) :
                    Sanitize(properties[i].name) = prop_token}
    IN IF hits = {} THEN 0 ELSE CHOOSE i \in hits : \A j \in hits : i <= j

\* lines 243-248: the first declared writable property whose sanitized name
\* is prop_token
FirstWritable(properties, prop_token) ==
    LET hits == {i \in 1..Len(properties) :
                    /\ Sanitize(properties[i].name) = prop_token
                    /\ ~properties[i].readonly}
    IN IF hits = {} THEN 0 ELSE CHOOSE i \in hits : \A j \in hits : i <= j

\* faulty variant: the property setters are tried before the methods
ResolveSettersFirst(ref, remainder) ==
    LET plugin == plugins[heap[ref].plugin]
        m == FirstMethod(plugin.methods, remainder)
        q == IF StartsWith(remainder, <<"s", "e", "t", "_">>)
             THEN FirstWritable(plugin.properties, DropPrefix(remainder, 4))
             ELSE 0
    IN IF q # 0 THEN Target(ref, "property", plugin.properties[q].name)
       ELSE IF m # 0 THEN Target(ref, "method", plugin.methods[m].name)
       ELSE NoTarget

\* lines 233-248: what name resolves to within one instance whose prefix
\* matched
ResolveInInstance(ref, remainder) ==
    LET plugin == plugins[heap[ref].plugin]
        m == FirstMethod(plugin.methods, remainder)
        q == IF StartsWith(remainder, <<"s", "e", "t", "_">>)
             THEN FirstWritable(plugin.properties, DropPrefix(remainder, 4))
             ELSE 0
    IN IF m # 0 THEN Target(ref, "method", plugin.methods[m].name)
       ELSE IF q # 0 THEN Target(ref, "property", plugin.properties[q].name)
       ELSE NoTarget

RECURSIVE ResolveFrom(_, _, _)
ResolveFrom(insts, i, name) ==
    IF i > Len(insts) THEN NoTarget
    ELSE LET prefix == ToolPrefix(heap[insts[i].state])
             hit == IF StartsWith(name, prefix)
                    THEN ResolveInInstance(insts[i].state,
                                           DropPrefix(name, Len(prefix)))
                    ELSE NoTarget
         IN IF hit.found THEN hit ELSE ResolveFrom(insts, i + 1, name)

\* _resolve_tool: for state in self._instances.values()
ResolveTool(insts, name) == ResolveFrom(insts, 1, name)

(***************************************************************************)
(* Resources                                                               *)
(***************************************************************************)
K_property == <<"p", "r", "o", "p", "e", "r", "t", "y">>
K_signal == <<"s", "i", "g", "n", "a", "l">>
K_bogus == <<"b", "o", "g", "u", "s">>

\* A URL scheme is a letter followed by letters, digits, "+", "-" and ".".
ValidScheme(scheme) ==
    /\ Len(scheme) > 0
    /\ scheme[1] \in Lower \cup Upper
    /\ \A i \in 1..Len(scheme) :
          scheme[i] \in Lower \cup Upper \cup Digit \cup {"+", "-", "."}

UpperSeq == <<"A", "B", "C", "D", "E", "F", "G", "H", "I", "J", "K", "L", "M",
              "N", "O", "P", "Q", "R", "S", "T", "U", "V", "W", "X", "Y", "Z">>
LowerSeq == <<"a", "b", "c", "d", "e", "f", "g", "h", "i", "j", "k", "l", "m",
              "n", "o", "p", "q", "r", "s", "t", "u", "v", "w", "x", "y", "z">>

\* str.lower on ASCII
ToLower(str) ==
    [i \in 1..Len(str) |->
        IF str[i] \in Upper
        THEN LowerSeq[CHOOSE k \in 1..26 : UpperSeq[k] = str[i]]
        ELSE str[i]]

\* AnyUrl(f"{pn}://{iid}/{category}/{item}"): the URL is validated and
\* normalised when it is built; a text that starts with no valid scheme is
\* rejected (a validation error), and the scheme is lower-cased.
AnyUrl(scheme, host, path) ==
    IF ValidScheme(scheme)
    THEN [valid |-> TRUE, scheme |-> ToLower(scheme), host |-> host,
          path |-> path]
    ELSE [valid |-> FALSE, scheme |-> <<>>, host |-> <<>>, path |-> <<>>]

\* lines 306-314: the resource of a declared property
PropertyResource(state, pdef) ==
    [uri |-> AnyUrl(state.plugin_name, state.instance_id,
                    <<K_property, pdef.name>>),
     name |-> <<state.plugin_name, state.instance_id, pdef.name>>,
     description |->
        IF pdef.description # <<>> THEN pdef.description
        ELSE <<"Property", pdef.name>>,
     mimeType |-> "application/json"]

\* lines 317-326: the resource of a declared signal
SignalResource(state, sdef) ==
    [uri |-> AnyUrl(state.plugin_name, state.instance_id,
                    <<K_signal, sdef.name>>),
     name |-> <<state.plugin_name, state.instance_id, sdef.name, "(signals)">>,
     description |->
        IF sdef.description # <<>> THEN sdef.description
        ELSE <<"Mailbox of the last", SIGNAL_MAILBOX_SIZE, sdef.name, "signals">>,
     mimeType |-> "application/json"]

\* lines 302-326: the resources of one instance, properties first
InstanceResources(state) ==
    LET plugin == plugins[state.plugin]
    IN [i \in 1..Len(plugin.properties) |->
            PropertyResource(state, plugin.properties[i])]
       \o [i \in 1..Len(plugin.signals) |->
            SignalResource(state, plugin.signals[i])]

RECURSIVE ResourcesFrom(_, _)
ResourcesFrom(insts, i) ==
    IF i > Len(insts) THEN <<>>
    ELSE InstanceResources(heap[insts[i].state]) \o ResourcesFrom(insts, i + 1)

\* _build_resource_list: the list, unless building one of its URLs raised
BuildResourceList(insts) ==
    LET all == ResourcesFrom(insts, 1)
    IN IF \E i \in 1..Len(all) : ~all[i].uri.valid
       THEN [raised |-> TRUE, value |-> <<>>]
       ELSE [raised |-> FALSE, value |-> all]

(***************************************************************************)
(* The protocol server's context: handlers and their replies               *)
(***************************************************************************)
NoUrl == [valid |-> FALSE, scheme |-> <<>>, host |-> <<>>, path |-> <<>>]

LIdle == [pc |-> "idle", name |-> <<>>, arguments |-> "", target |-> NoTarget,
          uri |-> NoUrl, state |-> 0]

\* an exception, by its class and str(exc)
Exc(type, text) == [type |-> type, text |-> text]
NoExc == Exc("", "")

\* a plugin operation invoked by a handler
Invocation(fn, client, item, arguments) ==
    [fn |-> fn, client |-> client, item |-> item, arguments |-> arguments]
NoCall == Invocation("", 0, <<>>, "")

\* What a handler hands back: kind is "return" or "raise"; exc is the
\* exception raised, or the one caught and logged on the way to the value;
\* call is the plugin operation the handler invoked, if any.
Reply(kind, op, value, exc, call) ==
    [kind |-> kind, op |-> op, value |-> value, exc |-> exc, call |-> call]
NoReply == Reply("none", "", <<>>, NoExc, NoCall)

\* json.dumps of a dict
JsonDumps(obj) == <<"json", obj>>

\* [types.TextContent(type="text", text=text)]
TextResult(text) == << [type |-> "text", text |-> text] >>

\* json.dumps({"status": "error", "error": str(exc)}, default=str)
ErrorEnvelope(exc) == JsonDumps([status |-> "error", error |-> exc.text])

\* arguments objects a caller may send
ArgumentInputs == {"{}", "{value: 42}"}

\* str(exc) of the exceptions a plugin operation may raise
ErrorTexts == {"", "boom"}

Returned(v) == [tag |-> "return", v |-> v]
Raised(text) == [tag |-> "raise", v |-> text]
Waiting == [tag |-> "waiting", v |-> ""]

\* plugin.write_property: returns None or raises
WriteOutcomes == {Returned("None")} \cup {Raised(e) : e \in ErrorTexts}

\* what a method, or the Future it returned, yields: None, a JSON value, a
\* pydantic model, a value json.dumps cannot serialise, or an exception
ValueOutcomes ==
    {Returned(v) : v \in {"None", "plain", "model", "circular"}}
        \cup {Raised(e) : e \in ErrorTexts}

\* plugin.call_method: a value outcome, or a concurrent.futures.Future
CallOutcomes == ValueOutcomes \cup {Returned("Future")}

NoPending == [active |-> FALSE, call |-> NoCall, elapsed |-> 0,
              outcome |-> Waiting]

\* tool names a caller may send, given the plugins and what may be announced:
\* every name an announced instance could be listed under, the setter name of
\* every declared property, the bare prefixes, and a name with no prefix
ToolNamesOf(plugs, announced) ==
    LET prefixes == {Sanitize(plugs[a[1]].name) \o <<"_">> \o Sanitize(a[2])
                        \o <<"_">> : a \in announced}
        methods == UNION {NamesOf(plugs[p].methods) : p \in 1..Len(plugs)}
        props == UNION {NamesOf(plugs[p].properties) : p \in 1..Len(plugs)}
    IN {pre \o Sanitize(m) : pre \in prefixes, m \in methods}
       \cup {pre \o <<"s", "e", "t", "_">> \o Sanitize(q) :
                pre \in prefixes, q \in props}
       \cup prefixes \cup {<<"z">>}

\* ---- list_tools ----------------------------------------------------------
\* handle_list_tools, line 182: with self._lock
HandleListTools ==
    /\ reply.kind = "none"
    /\ loop.pc = "idle"
    /\ Acquire("loop")
    /\ loop' = [loop EXCEPT !.pc = "tools_body"]
    /\ UNCHANGED <<plugins, instances, heap, dthread, pending, reply, env>>

\* lines 183-213
ListToolsBody ==
    /\ reply.kind = "none"
    /\ loop.pc = "tools_body"
    /\ lock = "loop"
    /\ lock' = "free"
    /\ reply' = Reply("return", "list_tools", BuildToolList(instances),
                      NoExc, NoCall)
    /\ loop' = LIdle
    /\ UNCHANGED <<plugins, instances, heap, dthread, pending, env>>

\* ---- call_tool -----------------------------------------------------------
\* handle_call_tool -> _dispatch_tool -> _resolve_tool, line 224
HandleCallTool(name, arguments) ==
    /\ reply.kind = "none"
    /\ loop.pc = "idle"
    /\ Acquire("loop")
    /\ loop' = [loop EXCEPT !.pc = "call_resolve", !.name = name,
                            !.arguments = arguments]
    /\ UNCHANGED <<plugins, instances, heap, dthread, pending, reply, env>>

\* faulty variant: the lock is kept when the resolution returns
CallResolveKeepsLock ==
    /\ reply.kind = "none"
    /\ loop.pc = "call_resolve"
    /\ lock = "loop"
    /\ loop' = [loop EXCEPT !.pc = "call_exec",
                            !.target = ResolveTool(instances, loop.name)]
    /\ UNCHANGED <<plugins, instances, heap, lock, dthread, pending, reply, env>>

\* lines 225-250
CallResolve ==
    /\ reply.kind = "none"
    /\ loop.pc = "call_resolve"
    /\ lock = "loop"
    /\ lock' = "free"
    /\ loop' = [loop EXCEPT !.pc = "call_exec",
                            !.target = ResolveTool(instances, loop.name)]
    /\ UNCHANGED <<plugins, instances, heap, dthread, pending, reply, env>>

\* lines 256-257: raise ValueError(f"Unknown tool: {name}")
CallUnknown ==
    /\ reply.kind = "none"
    /\ loop.pc = "call_exec"
    /\ ~loop.target.found
    /\ reply' = Reply("raise", "call_tool", <<>>,
                      Exc("ValueError", "Unknown tool"), NoCall)
    /\ loop' = LIdle
    /\ UNCHANGED <<plugins, instances, heap, lock, dthread, pending, env>>

\* faulty variant: the success envelope does not name the property
WriteReplyUnnamed(item, outcome, call) ==
    IF outcome.tag = "raise"
    THEN Reply("return", "call_tool",
               TextResult(ErrorEnvelope(Exc("Exception", outcome.v))),
               Exc("Exception", outcome.v), call)
    ELSE Reply("return", "call_tool",
               TextResult(JsonDumps([status |-> "ok"])), NoExc, call)

\* faulty variant: the exception of a property write is not caught
WriteReplyPropagates(item, outcome, call) ==
    IF outcome.tag = "raise"
    THEN Reply("raise", "call_tool", <<>>, Exc("Exception", outcome.v), call)
    ELSE Reply("return", "call_tool",
               TextResult(JsonDumps([status |-> "ok", property |-> item])),
               NoExc, call)

\* lines 261-270: the reply to a property write
WriteReply(item, outcome, call) ==
    IF outcome.tag = "raise"
    THEN Reply("return", "call_tool",
               TextResult(ErrorEnvelope(Exc("Exception", outcome.v))),
               Exc("Exception", outcome.v), call)
    ELSE Reply("return", "call_tool",
               TextResult(JsonDumps([status |-> "ok", property |-> item])),
               NoExc, call)

\* lines 261-270: kind == "property"
CallWriteProperty ==
    /\ reply.kind = "none"
    /\ loop.pc = "call_exec"
    /\ loop.target.found
    /\ loop.target.kind = "property"
    /\ \E outcome \in WriteOutcomes :
          reply' = WriteReply(loop.target.item, outcome,
                      Invocation("write_property",
                                 heap[loop.target.state].client,
                                 loop.target.item, loop.arguments))
    /\ loop' = LIdle
    /\ UNCHANGED <<plugins, instances, heap, lock, dthread, pending, env>>

\* faulty variant: the exception of a method call is not caught
MethodReplyPropagates(outcome, call) ==
    IF outcome.tag = "raise"
    THEN Reply("raise", "call_tool", <<>>, Exc("Exception", outcome.v), call)
    ELSE Reply("return", "call_tool",
               TextResult(JsonDumps([status |-> "ok"])), NoExc, call)

\* lines 280-292: the reply made from what the method, or its Future, yielded;
\* every exception raised on the way is caught at line 286
MethodReply(outcome, call) ==
    IF outcome.tag = "raise"
    THEN Reply("return", "call_tool",
               TextResult(ErrorEnvelope(Exc("Exception", outcome.v))),
               Exc("Exception", outcome.v), call)
    ELSE IF outcome.v = "model"
    THEN Reply("return", "call_tool", TextResult(<<"model_dump_json">>),
               NoExc, call)
    ELSE IF outcome.v = "None"
    THEN Reply("return", "call_tool",
               TextResult(JsonDumps([status |-> "ok"])), NoExc, call)
    ELSE IF outcome.v = "circular"
    THEN Reply("return", "call_tool",
               TextResult(ErrorEnvelope(
                   Exc("ValueError", "Circular reference detected"))),
               Exc("ValueError", "Circular reference detected"), call)
    ELSE Reply("return", "call_tool", TextResult(JsonDumps([value |-> "plain"])),
               NoExc, call)

\* lines 273-292: kind == "method", the method did not return a Future
CallMethod ==
    /\ reply.kind = "none"
    /\ loop.pc = "call_exec"
    /\ loop.target.found
    /\ loop.target.kind = "method"
    /\ \E outcome \in ValueOutcomes :
          reply' = MethodReply(outcome,
                      Invocation("call_method", heap[loop.target.state].client,
                                 loop.target.item, loop.arguments))
    /\ loop' = LIdle
    /\ UNCHANGED <<plugins, instances, heap, lock, dthread, pending, env>>

\* lines 277-278: the method returned a Future; the handler is suspended in
\* _resolve_future and the event loop is free for other requests. The model
\* follows one suspended call at a time.
CallMethodFuture ==
    /\ reply.kind = "none"
    /\ loop.pc = "call_exec"
    /\ ~pending.active
    /\ loop.target.found
    /\ loop.target.kind = "method"
    /\ pending' = [active |-> TRUE,
                   call |-> Invocation("call_method",
                                heap[loop.target.state].client,
                                loop.target.item, loop.arguments),
                   elapsed |-> 0, outcome |-> Waiting]
    /\ loop' = LIdle
    /\ UNCHANGED <<plugins, instances, heap, lock, dthread, reply, env>>

\* the remote side completes the Future; the time waited no longer matters
FutureDone(outcome) ==
    /\ reply.kind = "none"
    /\ pending.active
    /\ pending.outcome = Waiting
    /\ pending' = [pending EXCEPT !.outcome = outcome, !.elapsed = 0]
    /\ UNCHANGED <<plugins, instances, heap, lock, dthread, loop, reply, env>>

\* one time unit passes while a call waits for its Future; time does not
\* pass the deadline before the wait has ended
Tick ==
    /\ reply.kind = "none"
    /\ pending.active
    /\ pending.outcome = Waiting
    /\ pending.elapsed < FUTURE_TIMEOUT
    /\ pending' = [pending EXCEPT !.elapsed = @ + 1]
    /\ UNCHANGED <<plugins, instances, heap, lock, dthread, loop, reply, env>>

\* line 278 resumes with the Future's outcome
CallResume ==
    /\ reply.kind = "none"
    /\ loop.pc = "idle"
    /\ pending.active
    /\ pending.outcome # Waiting
    /\ reply' = MethodReply(pending.outcome, pending.call)
    /\ pending' = NoPending
    /\ UNCHANGED <<plugins, instances, heap, lock, dthread, loop, env>>

\* line 99: asyncio.wait_for raises TimeoutError(), whose str() is empty, once
\* the timeout has elapsed; line 286 catches it like any other exception
TimeoutReply(call) ==
    Reply("return", "call_tool",
          TextResult(ErrorEnvelope(Exc("TimeoutError", ""))),
          Exc("TimeoutError", ""), call)

\* faulty variant: the Future is awaited without a timeout
CallTimeoutNever == FALSE /\ UNCHANGED vars

\* lines 277-278 and 286-290: the wait ends with TimeoutError
CallTimeout ==
    /\ reply.kind = "none"
    /\ loop.pc = "idle"
    /\ pending.active
    /\ pending.outcome = Waiting
    /\ pending.elapsed >= FUTURE_TIMEOUT
    /\ reply' = TimeoutReply(pending.call)
    /\ pending' = NoPending
    /\ UNCHANGED <<plugins, instances, heap, lock, dthread, loop, env>>

\* ---- list_resources -----------------------------------------------------
\* handle_list_resources, line 300: with self._lock
HandleListResources ==
    /\ reply.kind = "none"
    /\ loop.pc = "idle"
    /\ Acquire("loop")
    /\ loop' = [loop EXCEPT !.pc = "resources_body"]
    /\ UNCHANGED <<plugins, instances, heap, dthread, pending, reply, env>>

\* lines 301-327; an exception raised inside the with block releases the lock
ListResourcesBody ==
    /\ reply.kind = "none"
    /\ loop.pc = "resources_body"
    /\ lock = "loop"
    /\ lock' = "free"
    /\ LET built == BuildResourceList(instances)
       IN reply' = IF built.raised
                   THEN Reply("raise", "list_resources", <<>>,
                              Exc("ValidationError", "invalid URL"), NoCall)
                   ELSE Reply("return", "list_resources", built.value,
                              NoExc, NoCall)
    /\ loop' = LIdle
    /\ UNCHANGED <<plugins, instances, heap, dthread, pending, env>>

\* ---- read_resource -------------------------------------------------------
\* line 333: [p for p in parsed.path.strip("/").split("/") if p]
PathParts(uri) == SelectSeq(uri.path, LAMBDA seg : seg # <<>>)

\* resource URIs a caller may send (each a valid AnyUrl): for every scheme
\* that is a loaded plugin's name and every instance identifier, a property,
\* a declared and an undeclared signal, an unknown category, a path of one
\* segment and a path with an empty segment
ReadPaths ==
    { <<K_property, N_p>>, <<K_signal, N_m>>, <<K_signal, N_x>>,
      <<K_bogus, N_p>>, <<K_property>>, <<K_signal, <<>>, N_n>> }

ReadUrisOf(plugs, announced) ==
    {AnyUrl(plugs[a[1]].name, a[2], path) : a \in announced, path \in ReadPaths}
    \ {NoUrl}

\* lines 330-341: a URI with fewer than two path segments is rejected, any
\* other takes the lock for the lookup
HandleReadResource(uri) ==
    /\ reply.kind = "none"
    /\ loop.pc = "idle"
    /\ IF Len(PathParts(uri)) < 2
       THEN /\ reply' = Reply("raise", "read_resource", <<>>,
                              Exc("ValueError", "Invalid resource URI"), NoCall)
            /\ UNCHANGED <<lock, loop>>
       ELSE /\ Acquire("loop")
            /\ loop' = [loop EXCEPT !.pc = "read_get", !.uri = uri]
            /\ UNCHANGED reply
    /\ UNCHANGED <<plugins, instances, heap, dthread, pending, env>>

\* lines 339-342: state = self._instances.get(key)
ReadGet ==
    /\ reply.kind = "none"
    /\ loop.pc = "read_get"
    /\ lock = "loop"
    /\ lock' = "free"
    /\ loop' = [loop EXCEPT !.pc = "read_exec",
                    !.uri = [loop.uri EXCEPT !.scheme = <<>>, !.host = <<>>],
                    !.state = DictGet(instances,
                                  InstanceKey(loop.uri.scheme, loop.uri.host))]
    /\ UNCHANGED <<plugins, instances, heap, dthread, pending, reply, env>>

\* faulty variant: an empty mailbox is serialized as null
MailboxToJsonNull(entries) ==
    IF entries = <<>> THEN <<"json", <<"null">>>> ELSE <<"json", entries>>

\* SignalMailbox.to_json: json.dumps(list(self._entries), default=str)
MailboxToJson(entries) == <<"json", entries>>

\* faulty variant: every category other than "signal" is read as a property
ReadReplyAnyCategory(ref, category, item, read) ==
    IF ref = 0
    THEN Reply("raise", "read_resource", <<>>,
               Exc("ValueError", "No active instance"), NoCall)
    ELSE IF category = K_signal
    THEN IF item \in DOMAIN heap[ref].signal_mailboxes
         THEN Reply("return", "read_resource",
                    MailboxToJson(heap[ref].signal_mailboxes[item]),
                    NoExc, NoCall)
         ELSE Reply("return", "read_resource", MailboxToJson(<<>>),
                    NoExc, NoCall)
    ELSE LET call == Invocation("read_property", heap[ref].client, item, "")
         IN IF read.tag = "raise"
            THEN Reply("raise", "read_resource", <<>>,
                       Exc("Exception", read.v), call)
            ELSE Reply("return", "read_resource",
                       <<"serialize_property", item, read.v>>, NoExc, call)

\* lines 344-359: the reply of _read_resource once the lookup is done; read
\* is what plugin.read_property yields for a property
ReadReply(ref, category, item, read) ==
    IF ref = 0
    THEN Reply("raise", "read_resource", <<>>,
               Exc("ValueError", "No active instance"), NoCall)
    ELSE IF category = K_property
    THEN LET call == Invocation("read_property", heap[ref].client, item, "")
         IN IF read.tag = "raise"
            THEN Reply("raise", "read_resource", <<>>,
                       Exc("Exception", read.v), call)
            ELSE Reply("return", "read_resource",
                       <<"serialize_property", item, read.v>>, NoExc, call)
    ELSE IF category = K_signal
    THEN IF item \in DOMAIN heap[ref].signal_mailboxes
         THEN Reply("return", "read_resource",
                    MailboxToJson(heap[ref].signal_mailboxes[item]),
                    NoExc, NoCall)
         ELSE Reply("return", "read_resource", MailboxToJson(<<>>),
                    NoExc, NoCall)
    ELSE Reply("raise", "read_resource", <<>>,
               Exc("ValueError", "Unknown resource category"), NoCall)

ReadOutcomes == {Returned("v1")} \cup {Raised(e) : e \in ErrorTexts}

ReadExec ==
    /\ reply.kind = "none"
    /\ loop.pc = "read_exec"
    /\ LET parts == PathParts(loop.uri)
       IN \E read \in (IF loop.state # 0 /\ parts[1] = K_property
                       THEN ReadOutcomes ELSE {Returned("v1")}) :
            reply' = ReadReply(loop.state, parts[1], parts[2], read)
    /\ loop' = LIdle
    /\ UNCHANGED <<plugins, instances, heap, lock, dthread, pending, env>>

\* the protocol server sends the reply
SendReply ==
    /\ reply.kind # "none"
    /\ reply' = NoReply
    /\ UNCHANGED <<plugins, instances, heap, lock, dthread, loop, pending, env>>

(***************************************************************************)
(* Specification of the registry runs: one discovery context, one protocol *)
(* context, the plugins "a" and "a_b"                                      *)
(***************************************************************************)
Init ==
    /\ plugins = RegistryPlugins
    /\ instances = <<>>
    /\ heap = <<>>
    /\ lock = "free"
    /\ dthread = [t \in Threads |-> DIdle]
    /\ loop = LIdle
    /\ pending = NoPending
    /\ reply = NoReply
    /\ env = [signals |-> 0, changes |-> 0, last |-> NoneObserved]

\* the discovery callbacks of context t, for what may be announced
Discovery(t, announced, limit, outcomes) ==
    \/ \E a \in announced : OnDiscovered(t, a[1], a[2], limit)
    \/ DiscoveredCheck(t)
    \/ DiscoveredBuild(t, outcomes)
    \/ DiscoveredLock2(t)
    \/ DiscoveredInsert(t)
    \/ \E a \in announced : OnRemoved(t, a[1], a[2])
    \/ RemovedPop(t)

\* list_tools and list_resources
Catalog ==
    \/ HandleListTools
    \/ ListToolsBody
    \/ HandleListResources
    \/ ListResourcesBody

\* call_tool for methods that return their value
Calls(names, arguments) ==
    \/ \E name \in names, a \in arguments : HandleCallTool(name, a)
    \/ CallResolve
    \/ CallUnknown
    \/ CallWriteProperty
    \/ CallMethod

\* call_tool for methods that return a Future
Futures ==
    \/ CallMethodFuture
    \/ \E outcome \in ValueOutcomes : FutureDone(outcome)
    \/ Tick
    \/ CallResume
    \/ CallTimeout

\* read_resource
Reads(uris) ==
    \/ \E uri \in uris : HandleReadResource(uri)
    \/ ReadGet
    \/ ReadExec

RegistryToolNames == ToolNamesOf(RegistryPlugins, RegistryAnnounced)
RegistryUris == ReadUrisOf(RegistryPlugins, RegistryAnnounced)

Next ==
    \/ Discovery(1, RegistryAnnounced, MaxClients, {"v1"})
    \/ Catalog
    \/ Calls(RegistryToolNames, ArgumentInputs)
    \/ Reads(RegistryUris)
    \/ SendReply

Spec == Init /\ [][Next]_vars

(***************************************************************************)
(* MessageCreator (message_creator.py)                                     *)
(***************************************************************************)
\* Python values: a str is its sequence of code points, a bytes object its
\* sequence of byte values
StrVal(chars) == [type |-> "str", v |-> chars]
BytesVal(bytes) == [type |-> "bytes", v |-> bytes]
None == [type |-> "None", v |-> <<>>]
\* an int, its value held in a one-element tuple
IntVal(n) == [type |-> "int", v |-> <<n>>]
\* a pydantic model object
ModelVal == [type |-> "model", v |-> <<>>]

\* the UTF-8 encoding of one code point (no surrogate)
Utf8(cp) ==
    IF cp < 128 THEN <<cp>>
    ELSE IF cp < 2048 THEN <<192 + (cp \div 64), 128 + (cp % 64)>>
    ELSE IF cp < 65536
    THEN <<224 + (cp \div 4096), 128 + ((cp \div 64) % 64),
           128 + (cp % 64)>>
    ELSE <<240 + (cp \div 262144), 128 + ((cp \div 4096) % 64),
           128 + ((cp \div 64) % 64), 128 + (cp % 64)>>

\* str.encode("utf-8")
RECURSIVE Encode(_)
Encode(chars) ==
    IF chars = <<>> THEN <<>> ELSE Utf8(Head(chars)) \o Encode(Tail(chars))

\* the decimal digits of a natural number, as code points ("0" is 48)
RECURSIVE Digits(_)
Digits(n) ==
    IF n < 10 THEN <<48 + n>>
    ELSE Digits(n \div 10) \o <<48 + (n % 10)>>

\* str(n) of an int: its decimal digits, after "-" (45) when it is negative
StrOfInt(n) == IF n < 0 THEN <<45>> \o Digits(0 - n) ELSE Digits(n)

\* faulty variant: a str is passed on as it is
CorrelationDataUnencoded(correlation_id) == correlation_id

\* correlation_id.encode("utf-8") if isinstance(correlation_id, str)
\* else correlation_id
CorrelationData(correlation_id) ==
    IF correlation_id.type = "str"
    THEN BytesVal(Encode(correlation_id.v))
    ELSE correlation_id

\* payload.model_dump_json(by_alias=True).encode("utf-8") of a pydantic model
ModelPayload(obj) == [type |-> "bytes", v |-> <<>>, json_of |-> obj]

\* pyqttier's Message, a record of the fields it is constructed with; the
\* fields a constructor does not pass are None
Message(topic, payload, qos, retain, message_expiry_interval, correlation_data, user_properties, response_topic) ==
    [topic |-> topic, payload |-> payload, qos |-> qos, retain |-> retain,
     message_expiry_interval |-> message_expiry_interval,
     correlation_data |-> correlation_data,
     user_properties |-> user_properties,
     response_topic |-> response_topic]

\* lines 9-16
signal_message(topic, payload) ==
    Message(topic, ModelPayload(payload), 1, FALSE, None, None, None, None)

\* lines 18-28
status_message(topic, status, expiry_seconds) ==
    Message(topic, ModelPayload(status), 1, TRUE, expiry_seconds, None, None,
            None)

\* lines 53-56 and 162-165: msg_obj.user_properties["DebugInfo"] = debug_info
WithDebugInfo(user_properties, debug_info) ==
    IF debug_info.type # "None"
    THEN [k \in DOMAIN user_properties \cup {"DebugInfo"} |->
            IF k = "DebugInfo" THEN debug_info.v ELSE user_properties[k]]
    ELSE user_properties

\* lines 30-57; the payload is b"{}"
error_response_message(topic, return_code, correlation_id, debug_info) ==
    Message(topic, BytesVal(<<123, 125>>), 1, FALSE, None,
            CorrelationData(correlation_id),
            WithDebugInfo([ReturnCode |-> StrOfInt(return_code)], debug_info),
            None)

\* lines 70-75
ResponsePayload(response_obj) ==
    IF response_obj.type = "model" THEN ModelPayload(response_obj)
    ELSE IF response_obj.type = "str" THEN BytesVal(Encode(response_obj.v))
    ELSE response_obj

\* lines 59-88
response_message(response_topic, response_obj, return_code, correlation_id) ==
    Message(response_topic, ResponsePayload(response_obj), 1, FALSE, None,
            CorrelationData(correlation_id),
            [ReturnCode |-> StrOfInt(return_code)], None)

\* faulty variant: the property state is not retained
property_state_message_unretained(topic, state_obj, state_version) ==
    Message(topic, ModelPayload(state_obj), 1, FALSE, None, None,
            IF state_version.type # "None"
            THEN [PropertyVersion |-> StrOfInt(state_version.v[1])] ELSE None,
            None)

\* lines 90-105
property_state_message(topic, state_obj, state_version) ==
    Message(topic, ModelPayload(state_obj), 1, TRUE, None, None,
            IF state_version.type # "None"
            THEN [PropertyVersion |-> StrOfInt(state_version.v[1])] ELSE None,
            None)

\* lines 107-132; str(version) of a str is the str
property_update_request_message(topic, property_obj, version, response_topic, correlation_id) ==
    Message(topic, ModelPayload(property_obj), 1, FALSE, None,
            CorrelationData(correlation_id),
            [PropertyVersion |-> version.v], response_topic)

\* lines 134-166
property_response_message(response_topic, property_obj, version, return_code, correlation_id, debug_info) ==
    Message(response_topic, ModelPayload(property_obj), 1, FALSE, None,
            CorrelationData(correlation_id),
            WithDebugInfo([ReturnCode |-> StrOfInt(return_code),
                           PropertyVersion |-> version.v], debug_info),
            None)

\* lines 168-190; uuid4 is the text str(uuid.uuid4()) yields when no
\* correlation id is given
request_message(topic, request_obj, response_topic, correlation_id, uuid4) ==
    Message(topic, ModelPayload(request_obj), 1, FALSE, None,
            CorrelationData(IF correlation_id.type = "None"
                            THEN StrVal(uuid4) ELSE correlation_id),
            None, response_topic)

\* ---- the calls a user of MessageCreator may make -------------------------
\* topics "t" and "t/e-acute"
Topics == {StrVal(<<116>>), StrVal(<<116, 47, 233>>)}

\* correlation ids: none, the strs "", "a", "a e-acute" and "euro-sign
\* grinning-face", the bytes b"a" and b"\xff\x00"
CorrelationIds ==
    {None, StrVal(<<>>), StrVal(<<97>>), StrVal(<<97, 233>>),
     StrVal(<<8364, 128512>>), BytesVal(<<97>>), BytesVal(<<255, 0>>)}

ReturnCodes == {0, 9, 400, 0 - 1}
DebugInfos == {None, StrVal(<<100>>)}
\* response objects: a model, the str "e-acute" and the bytes b"\xe9"
ResponseObjects == {ModelVal, StrVal(<<233>>), BytesVal(<<233>>)}
StateVersions == {None, IntVal(5)}
\* the version "1.0"
Versions == {StrVal(<<49, 46, 48>>)}
ExpirySeconds == {IntVal(3600)}
\* texts of str(uuid.uuid4()), shortened
Uuid4Texts == {<<52, 97>>, <<52, 98>>}

\* what a constructor called with args hands back: the message msg
Created(op, args, msg) ==
    Reply("return", op, msg, NoExc, Invocation(op, 0, <<>>, args))

CallSignalMessage ==
    /\ reply.kind = "none"
    /\ \E topic \in Topics :
        reply' = Created("signal_message", [topic |-> topic],
                  signal_message(topic, ModelVal))
    /\ UNCHANGED <<plugins, instances, heap, lock, dthread, loop, pending, env>>

CallStatusMessage ==
    /\ reply.kind = "none"
    /\ \E topic \in Topics, expiry \in ExpirySeconds :
        reply' = Created("status_message", [topic |-> topic],
                  status_message(topic, ModelVal, expiry))
    /\ UNCHANGED <<plugins, instances, heap, lock, dthread, loop, pending, env>>

CallErrorResponseMessage ==
    /\ reply.kind = "none"
    /\ \E topic \in Topics, rc \in ReturnCodes, cid \in CorrelationIds,
       dbg \in DebugInfos :
        reply' = Created("error_response_message",
                  [topic |-> topic, return_code |-> rc, correlation_id |-> cid],
                  error_response_message(topic, rc, cid, dbg))
    /\ UNCHANGED <<plugins, instances, heap, lock, dthread, loop, pending, env>>

CallResponseMessage ==
    /\ reply.kind = "none"
    /\ \E topic \in Topics, obj \in ResponseObjects, rc \in ReturnCodes,
       cid \in CorrelationIds :
        reply' = Created("response_message",
                  [topic |-> topic, return_code |-> rc, correlation_id |-> cid],
                  response_message(topic, obj, rc, cid))
    /\ UNCHANGED <<plugins, instances, heap, lock, dthread, loop, pending, env>>

CallPropertyStateMessage ==
    /\ reply.kind = "none"
    /\ \E topic \in Topics, version \in StateVersions :
        reply' = Created("property_state_message", [topic |-> topic],
                  property_state_message(topic, ModelVal, version))
    /\ UNCHANGED <<plugins, instances, heap, lock, dthread, loop, pending, env>>

CallPropertyUpdateRequestMessage ==
    /\ reply.kind = "none"
    /\ \E topic \in Topics, version \in Versions, rt \in Topics,
       cid \in CorrelationIds :
        reply' = Created("property_update_request_message",
                  [topic |-> topic, correlation_id |-> cid],
                  property_update_request_message(topic, ModelVal, version, rt,
                                                  cid))
    /\ UNCHANGED <<plugins, instances, heap, lock, dthread, loop, pending, env>>

CallPropertyResponseMessage ==
    /\ reply.kind = "none"
    /\ \E topic \in Topics, version \in Versions, rc \in ReturnCodes,
       cid \in CorrelationIds, dbg \in DebugInfos :
        reply' = Created("property_response_message",
                  [topic |-> topic, return_code |-> rc, correlation_id |-> cid],
                  property_response_message(topic, ModelVal, version, rc, cid,
                                            dbg))
    /\ UNCHANGED <<plugins, instances, heap, lock, dthread, loop, pending, env>>

CallRequestMessage ==
    /\ reply.kind = "none"
    /\ \E topic \in Topics, rt \in Topics, cid \in CorrelationIds,
       uuid4 \in Uuid4Texts :
        reply' = Created("request_message",
                  [topic |-> topic, correlation_id |-> cid],
                  request_message(topic, ModelVal, rt, cid, uuid4))
    /\ UNCHANGED <<plugins, instances, heap, lock, dthread, loop, pending, env>>

MessageNext ==
    \/ CallSignalMessage
    \/ CallStatusMessage
    \/ CallErrorResponseMessage
    \/ CallResponseMessage
    \/ CallPropertyStateMessage
    \/ CallPropertyUpdateRequestMessage
    \/ CallPropertyResponseMessage
    \/ CallRequestMessage
    \/ SendReply

MessageSpec == Init /\ [][MessageNext]_vars

(***************************************************************************)
(* Specification of the construction runs: _on_discovered builds the       *)
(* InstanceState one statement at a time while the catalog is listed       *)
(***************************************************************************)
\* lines 432-437: InstanceState(plugin_name, plugin, instance_id, client);
\* both dicts start empty and no callback is registered yet
FreshInstanceState(plugin, p, iid, handle) ==
    [plugin_name |-> plugin.name,
     plugin |-> p,
     instance_id |-> iid,
     client |-> handle,
     signal_mailboxes |-> [s \in {} |-> <<>>],
     property_cache |-> [q \in {} |-> "None"],
     receive_cbs |-> {},
     changed_cbs |-> {},
     sent |-> [s \in NamesOf(plugin.signals) |-> 0]]

\* d[k] = v on a dict held as a function
Store(d, k, v) == [x \in DOMAIN d \cup {k} |-> IF x = k THEN v ELSE d[x]]

\* lines 427-437: the client and the InstanceState are constructed
BuildState(t) ==
    /\ reply.kind = "none"
    /\ dthread[t].pc = "disc_build"
    /\ LET handle == Len(heap) + 1
       IN /\ heap' = Append(heap, FreshInstanceState(
                        plugins[dthread[t].plugin], dthread[t].plugin,
                        dthread[t].instance_id, handle))
          /\ dthread' = [dthread EXCEPT ![t] =
                [pc |-> "disc_signals", plugin |-> dthread[t].plugin,
                 instance_id |-> dthread[t].instance_id,
                 key |-> dthread[t].key, state |-> handle, i |-> 1]]
    /\ UNCHANGED <<plugins, instances, lock, loop, pending, reply, env>>

\* faulty variant: the loop over the signals is left at once
SignalsLeftNever(defs, i) == FALSE

\* line 440: for sdef in plugin.get_signals()
SignalsLeft(defs, i) == i <= Len(defs)

\* lines 440-453: one turn of the loop over the declared signals
BuildSignal(t) ==
    /\ reply.kind = "none"
    /\ dthread[t].pc = "disc_signals"
    /\ LET plugin == plugins[dthread[t].plugin]
           h == dthread[t].state
           i == dthread[t].i
       IN IF SignalsLeft(plugin.signals, i)
          THEN LET s == plugin.signals[i].name
               IN /\ heap' = [heap EXCEPT
                        ![h].signal_mailboxes = Store(@, s, <<>>),
                        ![h].receive_cbs =
                            IF s \in plugin.receive_hooks THEN @ \cup {s}
                            ELSE @]
                  /\ dthread' = [dthread EXCEPT ![t].i = i + 1]
          ELSE /\ heap' = heap
               /\ dthread' = [dthread EXCEPT ![t].pc = "disc_props",
                                             ![t].i = 1]
    /\ UNCHANGED <<plugins, instances, lock, loop, pending, reply, env>>

\* lines 456-475: one turn of the loop over the declared properties; outcomes
\* are the results plugin.read_property may have
BuildProperty(t, outcomes) ==
    /\ reply.kind = "none"
    /\ dthread[t].pc = "disc_props"
    /\ LET plugin == plugins[dthread[t].plugin]
           h == dthread[t].state
           i == dthread[t].i
       IN IF i <= Len(plugin.properties)
          THEN LET q == plugin.properties[i].name
               IN /\ \E read \in outcomes :
                        heap' = [heap EXCEPT
                            ![h].property_cache =
                                Store(@, q, IF read = "raise" THEN "None"
                                            ELSE read),
                            ![h].changed_cbs =
                                IF q \in plugin.changed_hooks THEN @ \cup {q}
                                ELSE @]
                  /\ dthread' = [dthread EXCEPT ![t].i = i + 1]
          ELSE /\ heap' = heap
               /\ dthread' = [dthread EXCEPT ![t] =
                    [pc |-> "disc_lock2", plugin |-> dthread[t].plugin,
                     instance_id |-> dthread[t].instance_id,
                     key |-> dthread[t].key, state |-> h]]
    /\ UNCHANGED <<plugins, instances, lock, loop, pending, reply, env>>

BuildOutcomes == {"v1", "raise"}

BuildNext ==
    \/ \E a \in RegistryAnnounced : OnDiscovered(1, a[1], a[2], MaxClients)
    \/ DiscoveredCheck(1)
    \/ BuildState(1)
    \/ BuildSignal(1)
    \/ BuildProperty(1, BuildOutcomes)
    \/ DiscoveredLock2(1)
    \/ DiscoveredInsert(1)
    \/ \E a \in RegistryAnnounced : OnRemoved(1, a[1], a[2])
    \/ RemovedPop(1)
    \/ Catalog
    \/ SendReply

BuildSpec == Init /\ [][BuildNext]_vars

(***************************************************************************)
(* Specification of the mailbox runs: the instance "a"/"b" and the signal  *)
(* "m", delivered more often than a mailbox holds                          *)
(***************************************************************************)
MailboxAnnounced == {<<1, N_b>>}
MailboxUris ==
    {AnyUrl(N_a, N_b, <<K_signal, N_m>>), AnyUrl(N_a, N_b, <<K_signal, N_x>>)}

MailboxNext ==
    \/ Discovery(1, MailboxAnnounced, MailboxClients, {"v1"})
    \/ \E c \in 1..MailboxClients : SignalCb(c, N_m, MaxBurst)
    \/ Reads(MailboxUris)
    \/ SendReply

MailboxSpec == Init /\ [][MailboxNext]_vars

(***************************************************************************)
(* Specification of the codec runs: one plugin "a" whose method and        *)
(* property lists are drawn from small pools, in every order               *)
(***************************************************************************)
\* the sequences of at most n distinct elements of S
DistinctSeqs(S, n) ==
    {seq \in UNION {[1..k -> S] : k \in 0..n} :
        \A i, j \in 1..Len(seq) : seq[i] = seq[j] => i = j}

\* methods "set_p" and "set-p"
CodecMethods ==
    {MethodDefinition(name, "schema", <<>>) : name \in {N_set_p, N_setDp}}

\* properties "p" and "p-q" (writable), "p_q" (writable) and "r" (read-only)
CodecProperties ==
    {PropertyDefinition(N_p, "schema", FALSE, <<>>),
     PropertyDefinition(N_pDq, "schema", FALSE, <<>>),
     PropertyDefinition(N_p_q, "schema", FALSE, <<>>),
     PropertyDefinition(N_r, "schema", TRUE, <<>>)}

CodecPlugins ==
    {<< Plugin(N_a, <<>>, properties, methods, {}, {}) >> :
        properties \in DistinctSeqs(CodecProperties, MaxCaps),
        methods \in DistinctSeqs(CodecMethods, MaxCaps)}

CodecAnnounced == {<<1, N_b>>, <<1, N_b_c>>}

CodecInit ==
    /\ plugins \in CodecPlugins
    /\ instances = <<>>
    /\ heap = <<>>
    /\ lock = "free"
    /\ dthread = [t \in Threads |-> DIdle]
    /\ loop = LIdle
    /\ pending = NoPending
    /\ reply = NoReply
    /\ env = [signals |-> 0, changes |-> 0, last |-> NoneObserved]

CodecNext ==
    \/ Discovery(1, CodecAnnounced, CodecClients, {"v1"})
    \/ Calls(ToolNamesOf(plugins, CodecAnnounced), {"{}"})
    \/ SendReply

CodecSpec == CodecInit /\ [][CodecNext]_vars

(***************************************************************************)
(* Specification of the dispatch runs: the instance "a"/"b", methods that  *)
(* return a value or a Future, and the passing of time                     *)
(***************************************************************************)
DispatchAnnounced == {<<1, N_b>>}
DispatchToolNames == ToolNamesOf(RegistryPlugins, DispatchAnnounced)

DispatchNext ==
    \/ Discovery(1, DispatchAnnounced, DispatchClients, {"v1"})
    \/ Calls(DispatchToolNames, ArgumentInputs)
    \/ Futures
    \/ SendReply

DispatchSpec == Init /\ [][DispatchNext]_vars

(***************************************************************************)
(* Specification of the await runs: calls of the method tool a_b_t, whose  *)
(* method may return a Future, under the scheduling the program relies on  *)
(***************************************************************************)
AwaitNext ==
    \/ Discovery(1, DispatchAnnounced, DispatchClients, {"v1"})
    \/ HandleCallTool(N_a \o <<"_">> \o N_b \o <<"_">> \o N_t, "{}")
    \/ CallResolve
    \/ CallUnknown
    \/ CallMethod
    \/ Futures
    \/ SendReply

\* a step of a tool call handler that is running on the event loop
HandlerStep ==
    \/ CallResolve
    \/ CallUnknown
    \/ CallMethod
    \/ CallMethodFuture

\* A running handler runs on and its response is sent (the event loop does
\* not stop), time passes, and a task that is ready again and again (the
\* resumption of a suspended call, by the Future's outcome or by the timer of
\* wait_for) is eventually run, however many other requests arrive.
AwaitSpec ==
    /\ Init
    /\ [][AwaitNext]_vars
    /\ WF_vars(HandlerStep)
    /\ WF_vars(SendReply)
    /\ SF_vars(Tick)
    /\ SF_vars(CallResume)
    /\ SF_vars(CallTimeout)

(***************************************************************************)
(* Specification of the concurrency runs: every capability operation of    *)
(* the handlers and of _on_discovered, for the instance "a"/"b"            *)
(***************************************************************************)
\* the method tool a_b_t and the setter tool a_b_set_p
LockToolNames ==
    {N_a \o <<"_">> \o N_b \o <<"_">> \o N_t,
     N_a \o <<"_">> \o N_b \o <<"_">> \o N_set_p}
LockUris ==
    {AnyUrl(N_a, N_b, <<K_property, N_p>>), AnyUrl(N_a, N_b, <<K_signal, N_m>>)}

LockNext ==
    \/ \E a \in DispatchAnnounced :
            OnDiscovered(1, a[1], a[2], DispatchClients)
    \/ DiscoveredCheck(1)
    \/ BuildState(1)
    \/ BuildSignal(1)
    \/ BuildProperty(1, BuildOutcomes)
    \/ DiscoveredLock2(1)
    \/ DiscoveredInsert(1)
    \/ \E a \in DispatchAnnounced : OnRemoved(1, a[1], a[2])
    \/ RemovedPop(1)
    \/ Catalog
    \/ Calls(LockToolNames, {"{}"})
    \/ Futures
    \/ Reads(LockUris)
    \/ SendReply

LockSpec == Init /\ [][LockNext]_vars

(***************************************************************************)
(* Specification of the resource runs: the plugins "A" and "a", whose      *)
(* names differ in case only, and reads of the URIs list_resources emits   *)
(***************************************************************************)
ResourcePlugins ==
    << Plugin(<<"A">>,
              << SignalDefinition(N_m, <<>>) >>,
              << PropertyDefinition(N_p, "schema_p", FALSE, <<>>) >>,
              <<>>, {}, {}),
       Plugin(N_a,
              << SignalDefinition(N_m, <<>>) >>,
              << PropertyDefinition(N_p, "schema_p", FALSE, <<>>) >>,
              <<>>, {}, {}) >>

\* "A"/"b", "A"/"b-c" and "a"/"b"
ResourceAnnounced == {<<1, N_b>>, <<1, N_bDc>>, <<2, N_b>>}

ResourceUris ==
    {AnyUrl(ResourcePlugins[a[1]].name, a[2], path) :
        a \in ResourceAnnounced, path \in {<<K_property, N_p>>, <<K_signal, N_m>>}}

ResourceInit ==
    /\ plugins = ResourcePlugins
    /\ instances = <<>>
    /\ heap = <<>>
    /\ lock = "free"
    /\ dthread = [t \in Threads |-> DIdle]
    /\ loop = LIdle
    /\ pending = NoPending
    /\ reply = NoReply
    /\ env = [signals |-> 0, changes |-> 0, last |-> NoneObserved]

ResourceNext ==
    \/ Discovery(1, ResourceAnnounced, MaxClients, {"v1"})
    \/ HandleListResources
    \/ ListResourcesBody
    \/ Reads(ResourceUris)
    \/ SendReply

ResourceSpec == ResourceInit /\ [][ResourceNext]_vars

(***************************************************************************)
(* Specification of the sanitize runs: "departed" events of the plugin    *)
(* "a" for every identifier up to a length over a small alphabet           *)
(***************************************************************************)
\* a lower-case and an upper-case letter, a digit, the underscore and a
\* character outside [A-Za-z0-9_]
SanitizeAlphabet == {"a", "Z", "7", "_", "-"}

\* the strings of at most n characters, the empty string among them
StringsUpTo(n) == UNION {[1..k -> SanitizeAlphabet] : k \in 0..n}

SanitizeAnnounced == {<<1, iid>> : iid \in StringsUpTo(MaxIdLen)}

SanitizeNext ==
    \/ \E a \in SanitizeAnnounced : OnRemoved(1, a[1], a[2])
    \/ RemovedPop(1)

SanitizeSpec == Init /\ [][SanitizeNext]_vars

(***************************************************************************)
(* Definitions shared by the properties                                    *)
(***************************************************************************)
\* the InstanceState objects the registry holds
TrackedRefs == {instances[i].state : i \in 1..Len(instances)}

\* the elements of a sequence
Range(seq) == {seq[i] : i \in 1..Len(seq)}

\* how often x occurs in a sequence
Count(seq, x) == Cardinality({i \in 1..Len(seq) : seq[i] = x})

\* the registry key of a built InstanceState
KeyOf(h) == InstanceKey(heap[h].plugin_name, heap[h].instance_id)

\* a built InstanceState that was tracked and whose key is Absent again
Departed(h) ==
    /\ ~DictHas(instances, KeyOf(h))
    /\ \A t \in Threads : dthread[t].state # h

\* name is the tool name of a declared method or writable property of a
\* tracked instance
Matches(insts, name) ==
    \E i \in 1..Len(insts) :
        LET state == heap[insts[i].state]
            plugin == plugins[state.plugin]
        IN \/ \E m \in Range(plugin.methods) :
                name = ToolPrefix(state) \o Sanitize(m.name)
           \/ \E q \in Range(plugin.properties) :
                /\ ~q.readonly
                /\ name = ToolPrefix(state) \o <<"s", "e", "t", "_">>
                              \o Sanitize(q.name)

(***************************************************************************)
(* C1: a second 'appeared' for a tracked key is a no-op: the registry      *)
(* holds one InstanceState per key, the client factory runs only for a key *)
(* that is not tracked, and no step replaces the handle stored for a key.  *)
(***************************************************************************)
KeysUnique ==
    \A i, j \in 1..Len(instances) :
        instances[i].key = instances[j].key => i = j

NoBuildForTracked ==
    \A t \in Threads :
        dthread[t].pc \in {"disc_build", "disc_lock2", "disc_insert"}
            => ~DictHas(instances, dthread[t].key)

DuplicateIgnored ==
    \A t \in Threads :
        ( /\ dthread[t].pc = "disc_check"
          /\ DictHas(instances, dthread[t].key)
          /\ dthread'[t] # dthread[t] )
        => /\ dthread'[t] = DIdle
           /\ instances' = instances
           /\ heap' = heap

HandleKept ==
    \A i \in 1..Len(instances) :
        DictHas(instances', instances[i].key)
            => DictGet(instances', instances[i].key) = instances[i].state

\* C1: delivering 'appeared' again for a tracked key leaves the one
\* InstanceState of that key in place and does not invoke the client factory
Thm_C1 ==
    /\ [](KeysUnique /\ NoBuildForTracked)
    /\ [][DuplicateIgnored /\ HandleKept]_vars

\* the second delivery for the tracked pair "a"/"b" is at its membership test
Witness_C1 ==
    /\ dthread[1].pc = "disc_check"
    /\ DictHas(instances, dthread[1].key)
    /\ LET h == heap[DictGet(instances, dthread[1].key)]
       IN /\ h.plugin = dthread[1].plugin
          /\ h.instance_id = dthread[1].instance_id

(***************************************************************************)
(* C2: once a key has departed, nothing of its instance is visible.        *)
(***************************************************************************)
\* C2 as claimed: for a departed instance, list_tools and list_resources
\* hold no entry of it, none of its tool names resolves, and reading any of
\* its URIs finds no active instance
Claim_C2 ==
    \A h \in 1..Len(heap) :
        Departed(h) =>
            /\ \A tool \in Range(InstanceTools(heap[h])) :
                  /\ tool \notin Range(BuildToolList(instances))
                  /\ ~ResolveTool(instances, tool.name).found
            /\ \A res \in Range(InstanceResources(heap[h])) :
                  /\ res \notin Range(ResourcesFrom(instances, 1))
                  /\ res.uri.valid =>
                        DictGet(instances,
                                InstanceKey(res.uri.scheme, res.uri.host)) = 0

(***************************************************************************)
(* C3: a mailbox holds the last min(count, N) payloads, oldest first.      *)
(***************************************************************************)
\* the smaller of two numbers
Min(a, b) == IF a <= b THEN a ELSE b

\* the last min(count, n) of the payloads 1, 2, ..., count, in append order
LastAppended(count, n) ==
    [i \in 1..Min(count, n) |-> count - Min(count, n) + i]

\* C3: in every reachable state every SignalMailbox holds at most
\* N = SIGNAL_MAILBOX_SIZE entries, and its contents, oldest first, are
\* exactly the last min(count, N) payloads appended to it, in append order
Thm_C3 ==
    \A h \in 1..Len(heap) :
        \A s \in DOMAIN heap[h].signal_mailboxes :
            /\ Len(heap[h].signal_mailboxes[s]) <= SIGNAL_MAILBOX_SIZE
            /\ heap[h].signal_mailboxes[s]
                  = LastAppended(heap[h].sent[s], SIGNAL_MAILBOX_SIZE)

\* N + 2 payloads were appended to a fresh mailbox, which holds the last N
Witness_C3 ==
    \E h \in 1..Len(heap) :
        /\ heap[h].sent[N_m] = SIGNAL_MAILBOX_SIZE + 2
        /\ Len(heap[h].signal_mailboxes[N_m]) = SIGNAL_MAILBOX_SIZE
        /\ heap[h].signal_mailboxes[N_m][1] = 3

(***************************************************************************)
(* C4: resolving the tool names built for the one tracked instance.        *)
(***************************************************************************)
\* the least element of a non-empty set of numbers
Least(S) == CHOOSE i \in S : \A j \in S : i <= j

\* the positions of the definitions in defs whose sanitized name is token
WithToken(defs, token) ==
    {i \in 1..Len(defs) : Sanitize(defs[i].name) = token}

\* the positions of the writable properties whose sanitized name is token
WritableWithToken(properties, token) ==
    {i \in WithToken(properties, token) : ~properties[i].readonly}

\* C4 as claimed: with exactly one tracked instance, the tool name built for
\* every declared method m resolves to (instance, "method", m) and the setter
\* name built for every writable property p to (instance, "property", p)
Claim_C4 ==
    Len(instances) = 1 =>
        LET ref == instances[1].state
            plugin == plugins[heap[ref].plugin]
        IN /\ \A i \in 1..Len(plugin.methods) :
                 ResolveTool(instances,
                             MethodTool(heap[ref], plugin.methods[i]).name)
                    = Target(ref, "method", plugin.methods[i].name)
           /\ \A i \in 1..Len(plugin.properties) :
                 ~plugin.properties[i].readonly =>
                    ResolveTool(instances,
                                SetterTool(heap[ref], plugin.properties[i]).name)
                       = Target(ref, "property", plugin.properties[i].name)

\* C4 as amended: with exactly one tracked instance, the tool name built for
\* a declared method m resolves to (instance, "method", m1), m1 the first
\* declared method with m's sanitized name; the setter name built for a
\* writable property p resolves to (instance, "method", m2) when some declared
\* method has the sanitized name "set_" + sanitize(p), m2 being the first
\* such, and otherwise to (instance, "property", p1), p1 the first writable
\* property with p's sanitized name
Thm_C4 ==
    Len(instances) = 1 =>
        LET ref == instances[1].state
            plugin == plugins[heap[ref].plugin]
        IN /\ \A i \in 1..Len(plugin.methods) :
                 LET m1 == Least(WithToken(plugin.methods,
                                           Sanitize(plugin.methods[i].name)))
                 IN ResolveTool(instances,
                                MethodTool(heap[ref], plugin.methods[i]).name)
                       = Target(ref, "method", plugin.methods[m1].name)
           /\ \A i \in 1..Len(plugin.properties) :
                 ~plugin.properties[i].readonly =>
                    LET token == Sanitize(plugin.properties[i].name)
                        shadows == WithToken(plugin.methods,
                                             <<"s", "e", "t", "_">> \o token)
                        p1 == Least(WritableWithToken(plugin.properties, token))
                    IN ResolveTool(instances,
                           SetterTool(heap[ref], plugin.properties[i]).name)
                         = IF shadows # {}
                           THEN Target(ref, "method",
                                       plugin.methods[Least(shadows)].name)
                           ELSE Target(ref, "property",
                                       plugin.properties[p1].name)

\* one instance is tracked, its plugin declares the method "set-p" and the
\* writable properties "p-q" and "p_q" in this order, and the setter name
\* built for "p_q" has just been resolved: to the property "p-q"
Witness_C4 ==
    /\ Len(instances) = 1
    /\ NamesOf(plugins[1].methods) = {N_setDp}
    /\ Len(plugins[1].properties) = 2
    /\ plugins[1].properties[1].name = N_pDq
    /\ plugins[1].properties[2].name = N_p_q
    /\ loop.pc = "call_exec"
    /\ loop.target = Target(instances[1].state, "property", N_pDq)

(***************************************************************************)
(* C5: a method named set_p and the setter of the property p.              *)
(***************************************************************************)
\* C5 as claimed: if the plugin of a tracked instance declares a method
\* named set_p and a writable property p, the tool name
\* <plugin>_<instance>_set_p resolves to kind "method" with item set_p
Claim_C5 ==
    \A i \in 1..Len(instances) :
        LET ref == instances[i].state
            plugin == plugins[heap[ref].plugin]
        IN \A m \in Range(plugin.methods), q \in Range(plugin.properties) :
              (~q.readonly /\ m.name = <<"s", "e", "t", "_">> \o q.name) =>
                  ResolveTool(instances, MethodTool(heap[ref], m).name)
                     = Target(ref, "method", m.name)

(***************************************************************************)
(* C6: the timeout outcome and the outcome of an execution error.          *)
(***************************************************************************)
\* what _dispatch_tool returns when call_method raises an exception whose
\* str() is text
ExecutionErrorResults(call) ==
    {MethodReply(Raised(text), call).value : text \in ErrorTexts}

\* C6 as claimed: when the Future a method returned never completes,
\* _dispatch_tool returns once the timeout has elapsed, and what it returns
\* differs from what it returns when call_method raises an execution error
Claim_C6 ==
    (reply.op = "call_tool" /\ reply.exc.type = "TimeoutError") =>
        /\ reply.kind = "return"
        /\ reply.value \notin ExecutionErrorResults(reply.call)

(***************************************************************************)
(* C7: an execution error becomes the error envelope.                      *)
(***************************************************************************)
\* C7: whenever write_property, call_method, the Future a method returned
\* or the serialization of the result raised in a call of a resolved tool,
\* _dispatch_tool does not raise: it returns a single text result whose
\* body is the envelope {status: "error", error: <error text>}
Thm_C7 ==
    (reply.op = "call_tool" /\ reply.call # NoCall /\ reply.exc # NoExc) =>
        /\ reply.kind = "return"
        /\ Len(reply.value) = 1
        /\ reply.value[1].type = "text"
        /\ reply.value[1].text
              = JsonDumps([status |-> "error", error |-> reply.exc.text])

\* write_property raised "boom" and the caller got the envelope
Witness_C7 ==
    /\ reply.kind = "return"
    /\ reply.call.fn = "write_property"
    /\ reply.exc = Exc("Exception", "boom")
    /\ reply.value = TextResult(ErrorEnvelope(Exc("Exception", "boom")))

(***************************************************************************)
(* C8: a name that matches nothing fails with "Unknown tool".              *)
(***************************************************************************)
ResolveDecides ==
    (loop.pc = "call_resolve" /\ loop'.pc = "call_exec")
        => (loop'.target.found <=> Matches(instances, loop.name))

UnknownFails ==
    (loop.pc = "call_exec" /\ ~loop.target.found /\ loop' # loop)
        => /\ reply' = Reply("raise", "call_tool", <<>>,
                             Exc("ValueError", "Unknown tool"), NoCall)
           /\ instances' = instances
           /\ heap' = heap

\* C8: a tool name matching no tracked instance's method or writable property
\* is rejected with "Unknown tool", no plugin operation is invoked and the
\* registry is unchanged
Thm_C8 == [][ResolveDecides /\ UnknownFails]_vars

\* the dispatcher holds an unresolved name while an instance is tracked
Witness_C8 ==
    /\ loop.pc = "call_exec"
    /\ ~loop.target.found
    /\ instances # <<>>

(***************************************************************************)
(* C9: list_tools is exact.                                                *)
(***************************************************************************)
\* the (instance, method) and (instance, writable property) pairs whose tool
\* is x
ToolOrigins(x) ==
    {<<i, j>> \in (1..Len(instances)) \X (1..2) :
        LET state == heap[instances[i].state]
            methods == plugins[state.plugin].methods
        IN j <= Len(methods) /\ MethodTool(state, methods[j]) = x}
    \cup
    {<<i, j + 2>> : <<i, j>> \in
        {<<i, j>> \in (1..Len(instances)) \X (1..2) :
            LET state == heap[instances[i].state]
                props == plugins[state.plugin].properties
            IN /\ j <= Len(props)
               /\ ~props[j].readonly
               /\ SetterTool(state, props[j]) = x}}

\* C9: the reply of list_tools holds one tool per (tracked instance, method)
\* and per (tracked instance, writable property) of the registry it was
\* built from, and nothing else
Thm_C9 ==
    reply.op = "list_tools" =>
        /\ reply.kind = "return"
        /\ \A x \in Range(reply.value) :
              Count(reply.value, x) = Cardinality(ToolOrigins(x))
        /\ \A i \in 1..Len(instances) :
              LET state == heap[instances[i].state]
                  plugin == plugins[state.plugin]
              IN /\ \A m \in Range(plugin.methods) :
                        MethodTool(state, m) \in Range(reply.value)
                 /\ \A q \in Range(plugin.properties) :
                        ~q.readonly =>
                            SetterTool(state, q) \in Range(reply.value)

\* a tool list built while an instance with a read-only property is tracked
Witness_C9 ==
    /\ reply.op = "list_tools"
    /\ Len(reply.value) >= 3
    /\ \E i \in 1..Len(instances) :
          \E q \in Range(plugins[heap[instances[i].state].plugin].properties) :
              q.readonly

(***************************************************************************)
(* C10: list_resources is exact.                                           *)
(***************************************************************************)
\* the declared properties and signals of tracked instances whose resource
\* has the name and the path of x
ResourceOrigins(x) ==
    {<<i, j>> \in (1..Len(instances)) \X (1..2) :
        LET state == heap[instances[i].state]
            props == plugins[state.plugin].properties
        IN /\ j <= Len(props)
           /\ x.name = <<state.plugin_name, state.instance_id, props[j].name>>
           /\ x.uri.path = <<K_property, props[j].name>>}
    \cup
    {<<i, j + 2>> : <<i, j>> \in
        {<<i, j>> \in (1..Len(instances)) \X (1..2) :
            LET state == heap[instances[i].state]
                sigs == plugins[state.plugin].signals
            IN /\ j <= Len(sigs)
               /\ x.name = <<state.plugin_name, state.instance_id,
                             sigs[j].name, "(signals)">>
               /\ x.uri.path = <<K_signal, sigs[j].name>>}}

\* the resources list_resources is to hold
ExpectedResources ==
    UNION {
        LET state == heap[instances[i].state]
            plugin == plugins[state.plugin]
        IN {[name |-> <<state.plugin_name, state.instance_id, q.name>>,
             path |-> <<K_property, q.name>>] : q \in Range(plugin.properties)}
           \cup
           {[name |-> <<state.plugin_name, state.instance_id, sg.name,
                        "(signals)">>,
             path |-> <<K_signal, sg.name>>] : sg \in Range(plugin.signals)}
        : i \in 1..Len(instances)}

\* C10 as claimed: list_resources returns one resource per (tracked instance,
\* declared property), read-only ones included, and one per (tracked
\* instance, declared signal), and nothing else
Claim_C10 ==
    reply.op = "list_resources" =>
        /\ reply.kind = "return"
        /\ \A x \in Range(reply.value) :
              Count(reply.value, x) = Cardinality(ResourceOrigins(x))
        /\ \A e \in ExpectedResources :
              \E x \in Range(reply.value) :
                  x.name = e.name /\ x.uri.path = e.path

(***************************************************************************)
(* C11: invoking the setter tool of a writable property.                   *)
(***************************************************************************)
\* the step in which _dispatch_tool acts on the target it resolved
Dispatches == loop.pc = "call_exec" /\ loop'.pc = "idle"

\* the envelope {"status": "ok", "property": p}
OkEnvelope(p) == TextResult(JsonDumps([status |-> "ok", property |-> p]))

\* C11 as claimed: invoking the setter tool name of a writable property p of
\* a tracked instance (resolved against the registry as it is) calls
\* write_property with that instance's handle, the name p and the unmodified
\* arguments, and on success the result is {"status": "ok", "property": p}
Claim_C11 ==
    [][\A i \in 1..Len(instances) :
          LET ref == instances[i].state
          IN \A q \in Range(plugins[heap[ref].plugin].properties) :
                (/\ Dispatches
                 /\ ~q.readonly
                 /\ loop.name = SetterTool(heap[ref], q).name
                 /\ loop.target = ResolveTool(instances, loop.name))
                => /\ reply'.call = Invocation("write_property",
                                       heap[ref].client, q.name, loop.arguments)
                   /\ reply'.exc = NoExc => reply'.value = OkEnvelope(q.name)
      ]_vars

\* a name resolved to kind "property" is the setter name of the item, and
\* the item is a writable property the instance's plugin declares
PropertyTargetIsSetter ==
    (loop.pc = "call_exec" /\ loop.target.found
        /\ loop.target.kind = "property") =>
        LET state == heap[loop.target.state]
        IN /\ loop.name = ToolPrefix(state) \o <<"s", "e", "t", "_">>
                              \o Sanitize(loop.target.item)
           /\ \E q \in Range(plugins[state.plugin].properties) :
                 q.name = loop.target.item /\ ~q.readonly

\* dispatching a target of kind "property" answers with the one call of
\* write_property, and with the success envelope when it raised nothing
WritesOnce ==
    (Dispatches /\ loop.target.found /\ loop.target.kind = "property") =>
        /\ reply'.call = Invocation("write_property",
                             heap[loop.target.state].client,
                             loop.target.item, loop.arguments)
        /\ reply'.exc = NoExc => reply'.value = OkEnvelope(loop.target.item)

\* C11 as amended: invoking a tool name that resolves to (instance,
\* "property", p), which is then the setter name of the writable property p,
\* calls write_property exactly once with that instance's handle, the name p
\* and the unmodified arguments object, and when that call succeeds the
\* result is the envelope {"status": "ok", "property": p}
Thm_C11 == []PropertyTargetIsSetter /\ [][WritesOnce]_vars

\* the setter of "p" was invoked with {"value": 42} and succeeded
Witness_C11 ==
    /\ reply.call.fn = "write_property"
    /\ reply.call.item = N_p
    /\ reply.call.arguments = "{value: 42}"
    /\ reply.exc = NoExc
    /\ reply.value = OkEnvelope(N_p)

(***************************************************************************)
(* C12: reading a signal resource nothing was appended to.                 *)
(***************************************************************************)
\* the JSON text "[]"
EmptyArrayText == <<"json", <<>>>>

\* the step in which _read_resource answers for the instance it looked up
AnswersRead == loop.pc = "read_exec" /\ loop'.pc = "idle"

\* C12: reading a signal resource of a tracked instance returns "[]"
\* whenever no payload has yet been appended to that signal's mailbox, and
\* also when the instance has no mailbox for the named signal
Thm_C12 ==
    [][(/\ AnswersRead
        /\ loop.state # 0
        /\ PathParts(loop.uri)[1] = K_signal
        /\ LET item == PathParts(loop.uri)[2]
           IN \/ item \notin DOMAIN heap[loop.state].signal_mailboxes
              \/ heap[loop.state].sent[item] = 0)
       => /\ reply'.kind = "return"
          /\ reply'.value = EmptyArrayText
      ]_vars

\* "[]" was returned although the signal "m" of the instance has payloads:
\* the read was of the signal "x", for which the instance has no mailbox
Witness_C12 ==
    /\ reply.kind = "return"
    /\ reply.op = "read_resource"
    /\ reply.value = EmptyArrayText
    /\ Len(heap) = 1
    /\ heap[1].sent[N_m] > 0

(***************************************************************************)
(* C13: sanitize is idempotent.                                            *)
(***************************************************************************)
\* the strings _on_discovered and _on_removed have sanitized: the plugin
\* name and instance identifier of every event being handled and of every
\* InstanceState built
SanitizeInputs ==
    {heap[h].instance_id : h \in 1..Len(heap)}
        \cup {heap[h].plugin_name : h \in 1..Len(heap)}
        \cup {dthread[t].instance_id : t \in {t \in Threads : dthread[t].pc # "idle"}}

\* C13: for every input string s, _sanitize(_sanitize(s)) = _sanitize(s)
Thm_C13 == \A s \in SanitizeInputs : Sanitize(Sanitize(s)) = Sanitize(s)

\* the identifier "-_Z" was sanitized, to "__Z", for the key "a___Z"
Witness_C13 ==
    /\ dthread[1].pc = "rem_pop"
    /\ dthread[1].instance_id = <<"-", "_", "Z">>
    /\ dthread[1].key = <<"a", "_", "_", "_", "Z">>

(***************************************************************************)
(* C14: the output of sanitize is a non-empty token.                       *)
(***************************************************************************)
\* C14 as claimed: for any input string, the empty string included, the
\* output of sanitize matches [A-Za-z0-9_]+: it is non-empty and holds only
\* ASCII letters, digits and underscores
Claim_C14 ==
    \A s \in SanitizeInputs :
        /\ Len(Sanitize(s)) >= 1
        /\ \A i \in 1..Len(Sanitize(s)) : Sanitize(s)[i] \in IdentChar


(***************************************************************************)
(* C15: status_message and property_state_message always produce retained  *)
(* messages, every other MessageCreator constructor produces a             *)
(* non-retained message, and every constructor produces QoS 1 with the     *)
(* topic it was given.                                                     *)
(***************************************************************************)
MessageConstructors ==
    {"signal_message", "status_message", "error_response_message",
     "response_message", "property_state_message",
     "property_update_request_message", "property_response_message",
     "request_message"}
RetainedConstructors == {"status_message", "property_state_message"}

\* a MessageCreator constructor has just handed back a message
Constructed == reply.kind = "return" /\ reply.op \in MessageConstructors

Thm_C15 ==
    Constructed =>
        /\ reply.value.retain = (reply.op \in RetainedConstructors)
        /\ reply.value.qos = 1
        /\ reply.value.topic = reply.call.arguments.topic

\* a property state message with a version came back retained
Witness_C15 ==
    /\ Constructed
    /\ reply.op = "property_state_message"
    /\ reply.value.retain
    /\ reply.value.user_properties = [PropertyVersion |-> <<53>>]

(***************************************************************************)
(* C16: for every MessageCreator constructor that takes a correlation id,  *)
(* a string correlation id is carried as its UTF-8 bytes, a bytes          *)
(* correlation id is carried unchanged, and the ReturnCode user property,  *)
(* where present, is the decimal string of the return code passed in.      *)
(***************************************************************************)
CorrelatedConstructors ==
    {"error_response_message", "response_message",
     "property_update_request_message", "property_response_message",
     "request_message"}

\* the number of bytes of the UTF-8 sequence that starts with the byte lead
Utf8Width(lead) ==
    IF lead < 128 THEN 1 ELSE IF lead < 224 THEN 2
    ELSE IF lead < 240 THEN 3 ELSE 4

\* the code point a UTF-8 sequence of one to four bytes stands for
Utf8CodePoint(bs) ==
    IF Len(bs) = 1 THEN bs[1]
    ELSE IF Len(bs) = 2 THEN ((bs[1] % 32) * 64) + (bs[2] % 64)
    ELSE IF Len(bs) = 3
    THEN ((bs[1] % 16) * 4096) + ((bs[2] % 64) * 64) + (bs[3] % 64)
    ELSE ((bs[1] % 8) * 262144) + ((bs[2] % 64) * 4096)
         + ((bs[3] % 64) * 64) + (bs[4] % 64)

\* the text a well-formed UTF-8 byte string stands for
RECURSIVE Utf8Text(_)
Utf8Text(bs) ==
    IF bs = <<>> THEN <<>>
    ELSE LET w == Utf8Width(bs[1])
         IN IF Len(bs) < w THEN <<0 - 1>>
            ELSE <<Utf8CodePoint(SubSeq(bs, 1, w))>>
                 \o Utf8Text(SubSeq(bs, w + 1, Len(bs)))

\* every byte of bs is a byte, and continuation bytes are where they belong
WellFormedUtf8(bs) ==
    /\ \A i \in 1..Len(bs) : bs[i] \in 0..247
    /\ \A i \in 1..Len(Utf8Text(bs)) : Utf8Text(bs)[i] >= 0

\* the number a string of decimal digits stands for
RECURSIVE DecimalValue(_)
DecimalValue(ds) ==
    IF ds = <<>> THEN 0
    ELSE (10 * DecimalValue(SubSeq(ds, 1, Len(ds) - 1))) + (ds[Len(ds)] - 48)

\* text is the decimal string of the integer n
IsDecimalOf(text, n) ==
    LET ds == IF n < 0 THEN Tail(text) ELSE text
    IN /\ Len(text) >= 1
       /\ n < 0 => text[1] = 45
       /\ Len(ds) >= 1
       /\ \A i \in 1..Len(ds) : ds[i] \in 48..57
       /\ Len(ds) > 1 => ds[1] # 48
       /\ DecimalValue(ds) = (IF n < 0 THEN 0 - n ELSE n)

CarriesCorrelationId(correlation_id, correlation_data) ==
    /\ correlation_id.type = "str" =>
          /\ correlation_data.type = "bytes"
          /\ WellFormedUtf8(correlation_data.v)
          /\ Utf8Text(correlation_data.v) = correlation_id.v
    /\ correlation_id.type = "bytes" =>
          /\ correlation_data.type = "bytes"
          /\ correlation_data.v = correlation_id.v

Thm_C16 ==
    (Constructed /\ reply.op \in CorrelatedConstructors) =>
        /\ CarriesCorrelationId(reply.call.arguments.correlation_id,
                                reply.value.correlation_data)
        /\ "ReturnCode" \in DOMAIN reply.value.user_properties =>
              IsDecimalOf(reply.value.user_properties.ReturnCode,
                          reply.call.arguments.return_code)

\* an error response for the return code -1 and the correlation id
\* "euro-sign grinning-face"
Witness_C16 ==
    /\ Constructed
    /\ reply.op = "error_response_message"
    /\ reply.call.arguments.correlation_id = StrVal(<<8364, 128512>>)
    /\ reply.value.correlation_data.v = <<226, 130, 172, 240, 159, 152, 128>>
    /\ reply.call.arguments.return_code = 0 - 1
    /\ reply.value.user_properties.ReturnCode = <<45, 49>>

(***************************************************************************)
(* C17: no partially initialised instance is ever visible: every           *)
(* InstanceState reachable through the registry has its remote handle      *)
(* constructed, a mailbox for every signal the plugin declares and the     *)
(* initial read attempted for every declared property; the insertion into  *)
(* the registry is the last step of handling an 'appeared' event.          *)
(***************************************************************************)
\* the InstanceState with handle h is fully initialised
Initialised(h) ==
    /\ h \in 1..Len(heap)
    /\ heap[h].client = h
    /\ DOMAIN heap[h].signal_mailboxes = NamesOf(plugins[heap[h].plugin].signals)
    /\ DOMAIN heap[h].property_cache =
            NamesOf(plugins[heap[h].plugin].properties)

RegistryInitialised ==
    \A e \in 1..Len(instances) : Initialised(instances[e].state)

KeysOf(insts) == {insts[e].key : e \in 1..Len(insts)}

\* a step that adds a key to the registry is the one that ends an 'appeared'
\* delivery, and it adds the key and the state of that delivery
InsertionIsLast ==
    KeysOf(instances') \ KeysOf(instances) # {} =>
        \E t \in Threads :
            /\ dthread[t].pc = "disc_insert"
            /\ dthread'[t] = DIdle
            /\ KeysOf(instances') \ KeysOf(instances) = {dthread[t].key}
            /\ DictGet(instances', dthread[t].key) = dthread[t].state

Thm_C17 == []RegistryInitialised /\ [][InsertionIsLast]_vars

\* the catalog is being listed over a registry that tracks an instance whose
\* read of "p" raised, while a second instance is only half built
Witness_C17 ==
    /\ loop.pc = "tools_body"
    /\ Len(instances) = 1
    /\ heap[instances[1].state].property_cache[N_p] = "None"
    /\ Len(heap) = 2
    /\ dthread[1].pc = "disc_props"
    /\ ~Initialised(2)

(***************************************************************************)
(* C18: every access to the registry mapping holds the single registry     *)
(* lock for the whole access: the iterations in list_tools, list_resources *)
(* and tool resolution, the lookup in read_resource, the membership test   *)
(* and the insert in 'appeared', and the removal in 'departed'; no two of  *)
(* these mapping accesses are ever in progress at the same time.           *)
(***************************************************************************)
\* the contexts that are in the middle of a mapping access
LoopAccessing ==
    IF loop.pc \in {"tools_body", "call_resolve", "resources_body", "read_get"}
    THEN {"loop"} ELSE {}
DiscoveryAccessing ==
    {DName(t) : t \in {u \in Threads :
        dthread[u].pc \in {"disc_check", "disc_insert", "rem_pop"}}}
Accessing == LoopAccessing \cup DiscoveryAccessing

AccessHoldsLock ==
    /\ \A who \in Accessing : lock = who
    /\ Cardinality(Accessing) <= 1

\* the mapping changes only in a step of the context that holds the lock, and
\* a context leaves its access by giving the lock back
AccessUnderLock ==
    /\ instances' # instances => lock \in DiscoveryAccessing
    /\ \A who \in Accessing \ Accessing' : lock = who /\ lock' = "free"

Thm_C18 == []AccessHoldsLock /\ [][AccessUnderLock]_vars

\* tool resolution iterates over a non-empty registry while an 'appeared'
\* delivery has built its state and waits for the lock to insert it
Witness_C18 ==
    /\ loop.pc = "call_resolve"
    /\ lock = "loop"
    /\ Len(instances) >= 1
    /\ dthread[1].pc = "disc_lock2"

(***************************************************************************)
(* C19: the registry lock is never held while a capability operation runs: *)
(* during write_property, call_method, the wait on an asynchronous result, *)
(* read_property in read_resource, and during client construction and the  *)
(* initial property reads of 'appeared', the lock is free.                 *)
(***************************************************************************)
\* the handler has resolved its target and runs write_property or call_method
Dispatching == loop.pc = "call_exec" /\ loop.target.found
\* a handler is suspended on the Future of a method
Awaiting == pending.active /\ pending.outcome = Waiting
\* read_resource runs read_property on the state it looked up
ReadingProperty ==
    /\ loop.pc = "read_exec"
    /\ loop.state # 0
    /\ PathParts(loop.uri)[1] = K_property
\* _on_discovered constructs the client, or reads a declared property
Constructing(t) ==
    \/ dthread[t].pc = "disc_build"
    \/ /\ dthread[t].pc = "disc_props"
       /\ dthread[t].i <= Len(plugins[dthread[t].plugin].properties)

\* as stated: the lock is free whenever a capability operation is under way
Claim_C19 ==
    (Dispatching \/ Awaiting \/ ReadingProperty
        \/ \E t \in Threads : Constructing(t)) => lock = "free"

\* the context that runs a capability operation does not hold the lock; while
\* a handler is suspended on a Future the event loop may hold the lock only
\* for the mapping access of another handler
RunnerHoldsNoLock ==
    /\ Dispatching => lock # "loop"
    /\ ReadingProperty => lock # "loop"
    /\ \A t \in Threads : Constructing(t) => lock # DName(t)
    /\ (Awaiting /\ lock = "loop") => LoopAccessing # {}

\* the handler that suspends on a Future does so without the lock
SuspendsWithoutLock ==
    (~pending.active /\ pending'.active) => (lock # "loop" /\ lock' = lock)

Thm_C19 == []RunnerHoldsNoLock /\ [][SuspendsWithoutLock]_vars

\* write_property is about to run on the event loop while a 'departed'
\* delivery holds the lock for its removal, and a method call awaits its Future
Witness_C19 ==
    /\ Dispatching
    /\ loop.target.kind = "property"
    /\ Awaiting
    /\ dthread[1].pc = "rem_pop"
    /\ lock = "d1"

(***************************************************************************)
(* C20: for any incoming tool name and any reachable registry state, at    *)
(* most one tracked instance's "<plugin>_<instance>_" prefix is a prefix   *)
(* of that name: two tracked instances whose (plugin name, instance        *)
(* identifier) pairs differ never both match the same tool name.           *)
(***************************************************************************)
\* line 229: name.startswith(prefix) for the tracked instance with handle h
PrefixMatches(h, name) == StartsWith(name, ToolPrefix(heap[h]))

\* C20 as claimed, of the name _resolve_tool is about to look up
Claim_C20 ==
    loop.pc = "call_resolve" =>
        \A e1, e2 \in 1..Len(instances) :
            LET h1 == instances[e1].state
                h2 == instances[e2].state
            IN (\/ heap[h1].plugin_name # heap[h2].plugin_name
                \/ heap[h1].instance_id # heap[h2].instance_id)
               => ~(PrefixMatches(h1, loop.name) /\ PrefixMatches(h2, loop.name))

(***************************************************************************)
(* C21: with any number of tracked instances, decode is the exact inverse  *)
(* of encode: every tool name list_tools emits for (instance i, method m)  *)
(* resolves to (i, "method", m) and every setter tool name emitted for     *)
(* (instance i, writable property p) resolves to (i, "property", p).       *)
(***************************************************************************)
\* C21 as claimed, of every tracked instance in every reachable registry
Claim_C21 ==
    \A e \in 1..Len(instances) :
        LET ref == instances[e].state
            plugin == plugins[heap[ref].plugin]
        IN /\ \A m \in Range(plugin.methods) :
                 MethodTool(heap[ref], m) \in Range(BuildToolList(instances)) =>
                    ResolveTool(instances, MethodTool(heap[ref], m).name)
                       = Target(ref, "method", m.name)
           /\ \A q \in Range(plugin.properties) :
                 (/\ ~q.readonly
                  /\ SetterTool(heap[ref], q) \in Range(BuildToolList(instances)))
                 => ResolveTool(instances, SetterTool(heap[ref], q).name)
                       = Target(ref, "property", q.name)

(***************************************************************************)
(* C22: for every tracked instance, decoding a resource URI that           *)
(* list_resources emitted for it sanitizes the (scheme, authority) pair to *)
(* the registry key under which that same InstanceState is stored, so      *)
(* read_resource locates that instance and not another one or none.        *)
(***************************************************************************)
\* the handles of the tracked instances for which list_resources emits uri
EmittedFor(uri) ==
    {instances[e].state : e \in
        {d \in 1..Len(instances) :
            \E r \in Range(InstanceResources(heap[instances[d].state])) :
                r.uri = uri}}

\* C22 as claimed, of the URI read_resource is about to look up
Claim_C22 ==
    loop.pc = "read_get" =>
        \A ref \in EmittedFor(loop.uri) :
            /\ InstanceKey(loop.uri.scheme, loop.uri.host)
                  = InstanceKey(heap[ref].plugin_name, heap[ref].instance_id)
            /\ DictGet(instances, InstanceKey(loop.uri.scheme, loop.uri.host))
                  = ref

(***************************************************************************)
(* C23: once an 'appeared' event for a (plugin, instance identifier) pair  *)
(* that was not tracked has been fully processed, the registry contains an *)
(* InstanceState whose plugin name and instance identifier are exactly     *)
(* that pair.                                                              *)
(***************************************************************************)
\* the registry insts holds an InstanceState of plugin p and identifier iid
PairTracked(insts, p, iid) ==
    \E e \in 1..Len(insts) :
        /\ heap[insts[e].state].plugin_name = plugins[p].name
        /\ heap[insts[e].state].instance_id = iid

\* C23 as claimed: an 'appeared' delivery ends at its membership test only
\* when the pair is tracked, and otherwise ends with the pair tracked
AppearedEndsTracked ==
    \A t \in Threads :
        /\ (dthread[t].pc = "disc_check" /\ dthread'[t].pc = "idle") =>
              PairTracked(instances, dthread[t].plugin, dthread[t].instance_id)
        /\ (dthread[t].pc = "disc_insert" /\ dthread'[t].pc = "idle") =>
              PairTracked(instances', dthread[t].plugin, dthread[t].instance_id)

Claim_C23 == [][AppearedEndsTracked]_vars

(***************************************************************************)
(* C24: when the initial read of a declared property raises during the     *)
(* handling of an 'appeared' event, the instance is still onboarded and    *)
(* the property cache has no entry for that property.                      *)
(***************************************************************************)
\* C24 as claimed. In the construction runs read_property returns "v1" or
\* raises, so the only properties that may lack a "v1" entry are those whose
\* read raised: a tracked instance is fully wired, and its cache holds "v1"
\* for the properties it has an entry for
Claim_C24 ==
    \A e \in 1..Len(instances) :
        LET state == heap[instances[e].state]
        IN /\ DOMAIN state.signal_mailboxes
                = NamesOf(plugins[state.plugin].signals)
           /\ \A q \in DOMAIN state.property_cache :
                 state.property_cache[q] = "v1"

(***************************************************************************)
(* C25: a tool call that resolved its target instance before that          *)
(* instance's 'departed' event is processed is not cancelled by the        *)
(* departure: it still executes the capability against the (now orphaned)  *)
(* handle and returns that call's own completion, error or timeout         *)
(* outcome, never an 'unknown tool' failure.                               *)
(***************************************************************************)
\* no registry entry refers to the InstanceState with handle h any more
Orphaned(h) == \A e \in 1..Len(instances) : instances[e].state # h

\* the call in flight on an orphaned instance: resolved and about to run,
\* or suspended on the Future of its method
InFlightOrphan ==
    \/ loop.pc = "call_exec" /\ loop.target.found /\ Orphaned(loop.target.state)
    \/ pending.active /\ Orphaned(pending.call.client)

\* a resolved call on an orphaned instance invokes the capability on the
\* handle it resolved, and replies with that invocation's outcome or suspends
\* on its Future
OrphanRuns ==
    (/\ loop.pc = "call_exec"
     /\ loop.target.found
     /\ Orphaned(loop.target.state)
     /\ loop' # loop) =>
        LET call == Invocation(IF loop.target.kind = "property"
                               THEN "write_property" ELSE "call_method",
                               heap[loop.target.state].client,
                               loop.target.item, loop.arguments)
        IN \/ /\ reply'.op = "call_tool"
              /\ reply'.kind = "return"
              /\ reply'.call.fn = call.fn
              /\ reply'.call.client = call.client
              /\ reply'.call.item = call.item
              /\ reply'.call.arguments = call.arguments
              /\ reply'.exc.text # "Unknown tool"
              /\ pending' = pending
           \/ /\ reply' = reply
              /\ pending'.active
              /\ pending'.call.fn = call.fn
              /\ pending'.call.client = call.client
              /\ pending'.call.item = call.item

\* a suspended call on an orphaned instance ends with the Future's outcome or
\* with the timeout
OrphanResumes ==
    (pending.active /\ Orphaned(pending.call.client) /\ ~pending'.active) =>
        \/ /\ pending.outcome.tag # "waiting"
           /\ reply' = MethodReply(pending.outcome, pending.call)
        \/ /\ pending.outcome.tag = "waiting"
           /\ pending.elapsed >= FUTURE_TIMEOUT
           /\ reply' = TimeoutReply(pending.call)

\* a step of the discovery callbacks leaves the calls in flight, and the
\* InstanceStates built so far, alone
DepartureSparesCalls ==
    dthread' # dthread =>
        /\ loop' = loop
        /\ pending' = pending
        /\ \A h \in 1..Len(heap) : heap'[h] = heap[h]

Thm_C25 == [][OrphanRuns /\ OrphanResumes /\ DepartureSparesCalls]_vars

\* the instance departed after a call of its method t was resolved, while an
\* earlier call of it is still suspended on its Future
Witness_C25 ==
    /\ instances = <<>>
    /\ loop.pc = "call_exec"
    /\ loop.target.found
    /\ loop.target.kind = "method"
    /\ pending.active
    /\ pending.outcome.tag = "waiting"
    /\ pending.call.client = loop.target.state

(***************************************************************************)
(* C26: every method invocation whose call_method result is an             *)
(* asynchronous handle eventually returns a response: either the handle's  *)
(* result once it completes, or an error outcome once the fixed timeout    *)
(* (30 time units) has elapsed; the dispatcher never waits on a handle     *)
(* beyond that bound.                                                      *)
(***************************************************************************)
\* a suspended call is eventually answered
AwaitEnds == pending.active ~> (~pending.active /\ reply.op = "call_tool")

\* the answer is made from the Future's outcome, or is the timeout error once
\* the timeout has elapsed without an outcome
AwaitAnswer ==
    (pending.active /\ ~pending'.active) =>
        \/ /\ pending.outcome.tag # "waiting"
           /\ reply' = MethodReply(pending.outcome, pending.call)
        \/ /\ pending.outcome.tag = "waiting"
           /\ pending.elapsed = FUTURE_TIMEOUT
           /\ reply' = TimeoutReply(pending.call)
           /\ reply'.value = TextResult(ErrorEnvelope(Exc("TimeoutError", "")))

\* no call has waited longer than the timeout
WaitBounded == pending.active => pending.elapsed <= FUTURE_TIMEOUT

Thm_C26 == AwaitEnds /\ [][AwaitAnswer]_vars /\ []WaitBounded

\* a call has waited the whole timeout for a Future that is not done
Witness_C26 ==
    /\ pending.active
    /\ pending.outcome.tag = "waiting"
    /\ pending.elapsed = FUTURE_TIMEOUT
    /\ pending.call.fn = "call_method"

(***************************************************************************)
(* C27: read_resource rejects the request with an error, without invoking  *)
(* any plugin read and without changing any state, when the URI has fewer  *)
(* than two non-empty path segments (whatever the registry contains) and   *)
(* when the URI names a tracked instance but its category is neither       *)
(* "property" nor "signal".                                                *)
(***************************************************************************)
\* the request is answered by a raised ValueError with the given text; no
\* plugin operation was invoked and nothing but the handler's own position
\* changed
RejectedWith(text) ==
    /\ reply'.kind = "raise"
    /\ reply'.op = "read_resource"
    /\ reply'.exc = Exc("ValueError", text)
    /\ reply'.call = NoCall
    /\ UNCHANGED <<plugins, instances, heap, lock, dthread, pending, env>>

ShortPathRejected ==
    \A uri \in RegistryUris :
        (Len(PathParts(uri)) < 2 /\ HandleReadResource(uri)) =>
            (RejectedWith("Invalid resource URI") /\ loop' = loop)

UnknownCategoryRejected ==
    (/\ AnswersRead
     /\ loop.state # 0
     /\ PathParts(loop.uri)[1] \notin {K_property, K_signal}) =>
        RejectedWith("Unknown resource category")

Thm_C27 == [][ShortPathRejected /\ UnknownCategoryRejected]_vars

\* a read of category "bogus" on a tracked instance has just been refused
Witness_C27 ==
    /\ reply.kind = "raise"
    /\ reply.op = "read_resource"
    /\ reply.exc = Exc("ValueError", "Unknown resource category")
    /\ Len(instances) >= 1

(***************************************************************************)
(* return_codes.py: the return codes, their exceptions and the factory     *)
(***************************************************************************)
\* class MethodReturnCode(IntEnum), its members in definition order
MethodReturnCode ==
    << [name |-> "SUCCESS", value |-> 0],
       [name |-> "CLIENT_ERROR", value |-> 1],
       [name |-> "SERVER_ERROR", value |-> 2],
       [name |-> "TRANSPORT_ERROR", value |-> 3],
       [name |-> "PAYLOAD_ERROR", value |-> 4],
       [name |-> "CLIENT_SERIALIZATION_ERROR", value |-> 5],
       [name |-> "CLIENT_DESERIALIZATION_ERROR", value |-> 6],
       [name |-> "SERVER_SERIALIZATION_ERROR", value |-> 7],
       [name |-> "SERVER_DESERIALIZATION_ERROR", value |-> 8],
       [name |-> "METHOD_NOT_FOUND", value |-> 9],
       [name |-> "UNAUTHORIZED", value |-> 10],
       [name |-> "TIMEOUT", value |-> 11],
       [name |-> "OUT_OF_SYNC", value |-> 12],
       [name |-> "UNKNOWN_ERROR", value |-> 13],
       [name |-> "NOT_IMPLEMENTED", value |-> 14],
       [name |-> "SERVICE_UNAVAILABLE", value |-> 15] >>

\* MethodReturnCode.<name>: the value of the first member of that name
MemberValue(name) ==
    LET i == CHOOSE i \in 1..Len(MethodReturnCode) :
                 /\ MethodReturnCode[i].name = name
                 /\ \A j \in 1..(i - 1) : MethodReturnCode[j].name # name
    IN MethodReturnCode[i].value

\* StingerMethodException.__init__ of an object of class cls: str(exc) is
\* message, exc.return_code is return_code
StingerMethodException(cls, return_code, message) ==
    [cls |-> cls, return_code |-> return_code, message |-> message]

\* the sixteen subclasses, each with the member its __init__ hands to
\* StingerMethodException.__init__
ExceptionClasses ==
    << [cls |-> "SuccessStingerMethodException", code |-> "SUCCESS"],
       [cls |-> "ClientErrorStingerMethodException", code |-> "CLIENT_ERROR"],
       [cls |-> "ServerErrorStingerMethodException", code |-> "SERVER_ERROR"],
       [cls |-> "TransportErrorStingerMethodException",
        code |-> "TRANSPORT_ERROR"],
       [cls |-> "PayloadErrorStingerMethodException", code |-> "PAYLOAD_ERROR"],
       [cls |-> "ClientSerializationErrorStingerMethodException",
        code |-> "CLIENT_SERIALIZATION_ERROR"],
       [cls |-> "ClientDeserializationErrorStingerMethodException",
        code |-> "CLIENT_DESERIALIZATION_ERROR"],
       [cls |-> "ServerSerializationErrorStingerMethodException",
        code |-> "SERVER_SERIALIZATION_ERROR"],
       [cls |-> "ServerDeserializationErrorStingerMethodException",
        code |-> "SERVER_DESERIALIZATION_ERROR"],
       [cls |-> "MethodNotFoundStingerMethodException",
        code |-> "METHOD_NOT_FOUND"],
       [cls |-> "UnauthorizedStingerMethodException", code |-> "UNAUTHORIZED"],
       [cls |-> "TimeoutStingerMethodException", code |-> "TIMEOUT"],
       [cls |-> "OutOfSyncStingerMethodException", code |-> "OUT_OF_SYNC"],
       [cls |-> "UnknownErrorStingerMethodException", code |-> "UNKNOWN_ERROR"],
       [cls |-> "NotImplementedStingerMethodException",
        code |-> "NOT_IMPLEMENTED"],
       [cls |-> "ServiceUnavailableStingerMethodException",
        code |-> "SERVICE_UNAVAILABLE"] >>

\* cls(message) for one of the subclasses
NewException(cls, message) ==
    LET i == CHOOSE i \in 1..Len(ExceptionClasses) :
                 ExceptionClasses[i].cls = cls
    IN StingerMethodException(cls, MemberValue(ExceptionClasses[i].code),
                              message)

\* the dict exc_classes built by stinger_exception_factory
exc_classes ==
    << [key |-> 0, cls |-> "SuccessStingerMethodException"],
       [key |-> 1, cls |-> "ClientErrorStingerMethodException"],
       [key |-> 2, cls |-> "ServerErrorStingerMethodException"],
       [key |-> 3, cls |-> "TransportErrorStingerMethodException"],
       [key |-> 4, cls |-> "PayloadErrorStingerMethodException"],
       [key |-> 5, cls |-> "ClientSerializationErrorStingerMethodException"],
       [key |-> 6, cls |-> "ClientDeserializationErrorStingerMethodException"],
       [key |-> 7, cls |-> "ServerSerializationErrorStingerMethodException"],
       [key |-> 8, cls |-> "ServerDeserializationErrorStingerMethodException"],
       [key |-> 9, cls |-> "MethodNotFoundStingerMethodException"],
       [key |-> 10, cls |-> "UnauthorizedStingerMethodException"],
       [key |-> 11, cls |-> "TimeoutStingerMethodException"],
       [key |-> 12, cls |-> "OutOfSyncStingerMethodException"],
       [key |-> 13, cls |-> "UnknownErrorStingerMethodException"],
       [key |-> 14, cls |-> "NotImplementedStingerMethodException"],
       [key |-> 15, cls |-> "ServiceUnavailableStingerMethodException"] >>

\* message or ""
MessageOrEmpty(message) == IF message = None \/ message.v = <<>>
                           THEN <<>> ELSE message.v

\* the factory with exc_classes.get(return_code, UnknownError...) in place of
\* the subscript
stinger_exception_factory_get(return_code, message) ==
    LET found == {i \in 1..Len(exc_classes) : exc_classes[i].key = return_code}
        cls == IF found = {} THEN "UnknownErrorStingerMethodException"
               ELSE exc_classes[CHOOSE i \in found : TRUE].cls
    IN [raised |-> FALSE, exc |-> NoExc,
        value |-> NewException(cls, MessageOrEmpty(message))]

\* lines 131-151: exc_classes[return_code] raises KeyError for a key the
\* dict lacks; otherwise the class found is called with message or ""
stinger_exception_factory(return_code, message) ==
    LET found == {i \in 1..Len(exc_classes) : exc_classes[i].key = return_code}
    IN IF found = {}
       THEN [raised |-> TRUE, exc |-> Exc("KeyError", ToString(return_code)),
             value |-> <<>>]
       ELSE [raised |-> FALSE, exc |-> NoExc,
             value |-> NewException(exc_classes[CHOOSE i \in found : TRUE].cls,
                                    MessageOrEmpty(message))]

(***************************************************************************)
(* Specification of the factory runs: stinger_exception_factory is called  *)
(* with the codes around 0..15 and a few messages                          *)
(***************************************************************************)
\* how far below 0 and above 15 the codes handed to the factory reach
CodeMargin == 2
FactoryCodes == (0 - CodeMargin)..(15 + CodeMargin)
\* messages: none, "", "e", "e-acute", "no", "euro-sign"
FactoryMessages ==
    {None, StrVal(<<>>), StrVal(<<101>>), StrVal(<<233>>),
     StrVal(<<110, 111>>), StrVal(<<8364>>)}

CallStingerExceptionFactory ==
    /\ reply.kind = "none"
    /\ \E return_code \in FactoryCodes, message \in FactoryMessages :
        LET r == stinger_exception_factory(return_code, message)
            call == Invocation("stinger_exception_factory", 0, <<>>,
                       [return_code |-> return_code, message |-> message])
        IN reply' = Reply(IF r.raised THEN "raise" ELSE "return",
                          "stinger_exception_factory", r.value, r.exc, call)
    /\ UNCHANGED <<plugins, instances, heap, lock, dthread, loop, pending, env>>

FactoryNext == CallStingerExceptionFactory \/ SendReply

FactorySpec == Init /\ [][FactoryNext]_vars

(***************************************************************************)
(* C28                                                                     *)
(***************************************************************************)
\* the values of the members of MethodReturnCode
ReturnCodeValues == {MethodReturnCode[i].value : i \in 1..Len(MethodReturnCode)}

\* the classes whose __init__ hands the member of value c to the base class
ClassesOf(c) ==
    {ExceptionClasses[i].cls : i \in {j \in 1..Len(ExceptionClasses) :
                                       MemberValue(ExceptionClasses[j].code) = c}}

\* the enumeration has sixteen members whose values are exactly 0..15, no
\* value twice
SixteenCodes ==
    /\ Len(MethodReturnCode) = 16
    /\ ReturnCodeValues = 0..15
    /\ \A i, j \in 1..Len(MethodReturnCode) :
        MethodReturnCode[i].value = MethodReturnCode[j].value => i = j

\* a call with a code in 0..15 returns an exception of that code, of the one
\* class that carries the code, with the message given (or "")
FactoryExact ==
    \A c \in 0..15 :
        (reply.op = "stinger_exception_factory"
         /\ reply.call.arguments.return_code = c)
        => /\ reply.kind = "return"
           /\ reply.value.return_code = c
           /\ ClassesOf(c) = {reply.value.cls}
           /\ reply.value.message =
                  MessageOrEmpty(reply.call.arguments.message)

\* a call with a code outside 0..15 raises and returns nothing
FactoryFailsOutside ==
    (reply.op = "stinger_exception_factory"
     /\ reply.call.arguments.return_code \notin 0..15)
    => reply.kind = "raise" /\ reply.value = <<>>

\* C28: stinger_exception_factory is total and exact on the sixteen return
\* codes: for every code c in 0..15 it returns an exception whose
\* return_code is c and whose class is the one dedicated to c; the sixteen
\* MethodReturnCode values are exactly 0..15 without duplicates; for a code
\* outside 0..15 the call fails instead of returning an exception.
Thm_C28 == SixteenCodes /\ FactoryExact /\ FactoryFailsOutside

\* the factory has returned the exception of code 15 with a message given
Witness_C28 ==
    /\ reply.op = "stinger_exception_factory"
    /\ reply.kind = "return"
    /\ reply.call.arguments.return_code = 15
    /\ reply.value.cls = "ServiceUnavailableStingerMethodException"
    /\ reply.value.message = <<110, 111>>

\* the factory has failed for the code 16
FactoryFailed ==
    /\ reply.op = "stinger_exception_factory"
    /\ reply.kind = "raise"
    /\ reply.call.arguments.return_code = 16

(***************************************************************************)
(* Specification of the concurrent deliveries: two discovery contexts      *)
(* deliver 'appeared' and 'departed' for the same instances while the      *)
(* catalog is listed                                                       *)
(***************************************************************************)
\* client handles built in the concurrent runs
ConcurrentClients == 3
ConcurrentAnnounced == {<<1, N_b>>, <<2, N_c>>}
\* the keys whose deliveries are observed
ConcurrentKeys ==
    {InstanceKey(RegistryPlugins[a[1]].name, a[2]) : a \in ConcurrentAnnounced}

ConcurrentInit ==
    /\ plugins = RegistryPlugins
    /\ instances = <<>>
    /\ heap = <<>>
    /\ lock = "free"
    /\ dthread = [t \in Threads |-> DIdle]
    /\ loop = LIdle
    /\ pending = NoPending
    /\ reply = NoReply
    /\ env = [signals |-> 0, changes |-> 0,
              last |-> [k \in ConcurrentKeys |-> "none"]]

ConcurrentNext ==
    \/ Discovery(1, ConcurrentAnnounced, ConcurrentClients, {"v1"})
    \/ Discovery(2, ConcurrentAnnounced, ConcurrentClients, {"v1"})
    \/ HandleListTools
    \/ ListToolsBody
    \/ SendReply

ConcurrentSpec == ConcurrentInit /\ [][ConcurrentNext]_vars

(***************************************************************************)
(* C29                                                                     *)
(***************************************************************************)
\* context t invokes the client factory in this step
FactoryInvoked(t) ==
    dthread[t].pc = "disc_build" /\ dthread'[t].pc = "disc_lock2"

\* context u holds a client it has built for key and not yet inserted
HoldsClientFor(u, key) ==
    dthread[u].pc \in {"disc_lock2", "disc_insert"} /\ dthread[u].key = key

\* the factory is invoked only for a key that is not tracked and for which
\* no other delivery has a client on its way into the registry
FactoryOncePerPeriod ==
    \A t \in Threads :
        FactoryInvoked(t)
        => /\ ~DictHas(instances, dthread[t].key)
           /\ \A u \in Threads \ {t} : ~HoldsClientFor(u, dthread[t].key)

\* C29: under any interleaving of concurrently executing 'appeared'
\* callbacks for the same key, the client factory is invoked at most once
\* per tracked period of that key, and the handle stored for a key is never
\* overwritten while the key stays tracked.
Claim_C29 == [][FactoryOncePerPeriod /\ HandleKept]_vars

\* two deliveries have each built a client for the same untracked key
TwoClientsForOneKey ==
    /\ dthread[1].pc = "disc_lock2"
    /\ dthread[2].pc = "disc_lock2"
    /\ dthread[1].key = dthread[2].key
    /\ dthread[1].plugin = dthread[2].plugin
    /\ dthread[1].instance_id = dthread[2].instance_id
    /\ dthread[1].state # dthread[2].state

(***************************************************************************)
(* C30                                                                     *)
(***************************************************************************)
\* no discovery callback is in progress
DiscoveryQuiet == \A t \in Threads : dthread[t].pc = "idle"

\* C30: if 'departed' is the last discovery event delivered for a key, then
\* once every discovery callback that was in progress has finished the key
\* is absent from the registry, also when the 'departed' callback ran while
\* an 'appeared' callback for the same key was between its membership test
\* and its insert.
Claim_C30 ==
    \A k \in DOMAIN env.last :
        (env.last[k] = "departed" /\ DiscoveryQuiet) => ~DictHas(instances, k)

\* a 'departed' callback is about to pop a key for which an 'appeared'
\* callback, delivered earlier, has passed its membership test
DepartedDuringBuild ==
    \E t, u \in Threads :
        /\ dthread[t].pc = "rem_pop"
        /\ dthread[u].pc \in {"disc_build", "disc_lock2"}
        /\ dthread[u].key = dthread[t].key
        /\ env.last[dthread[t].key] = "departed"

(***************************************************************************)
(* C31                                                                     *)
(***************************************************************************)
\* the entry is stored under sanitize(plugin_name) + "_" +
\* sanitize(instance_id) of the InstanceState it holds
KeyOfOwnFields(e) ==
    e.key = Sanitize(heap[e.state].plugin_name) \o <<"_">>
                \o Sanitize(heap[e.state].instance_id)

\* C31: in every reachable state each registry entry is stored under the key
\* computed from its own fields, key == sanitize(state.plugin_name) + "_" +
\* sanitize(state.instance_id); so the prefix tool resolution uses for an
\* instance is its registry key followed by "_".
Thm_C31 ==
    \A i \in 1..Len(instances) :
        /\ instances[i].state \in 1..Len(heap)
        /\ KeyOfOwnFields(instances[i])
        /\ ToolPrefix(heap[instances[i].state]) = instances[i].key \o <<"_">>

\* the instance "b-c" of plugin "a" is tracked, under the key "a_b_c"
Witness_C31 ==
    \E i \in 1..Len(instances) :
        /\ heap[instances[i].state].plugin_name = N_a
        /\ heap[instances[i].state].instance_id = N_bDc
        /\ instances[i].key = <<"a", "_", "b", "_", "c">>

(***************************************************************************)
(* Specification of the setter runs: a plugin "a" whose read-only property *)
(* "p-q" and writable property "p_q" share their sanitized name            *)
(***************************************************************************)
SetterPlugins ==
    << Plugin(N_a, <<>>,
              << PropertyDefinition(N_pDq, "schema_p-q", TRUE, <<>>),
                 PropertyDefinition(N_p_q, "schema_p_q", FALSE, <<>>),
                 PropertyDefinition(N_r, "schema_r", TRUE, <<>>) >>,
              << MethodDefinition(N_t, "schema_t", <<>>) >>,
              {}, {}) >>

SetterAnnounced == {<<1, N_b>>, <<1, N_b_c>>}

SetterInit ==
    /\ plugins = SetterPlugins
    /\ instances = <<>>
    /\ heap = <<>>
    /\ lock = "free"
    /\ dthread = [t \in Threads |-> DIdle]
    /\ loop = LIdle
    /\ pending = NoPending
    /\ reply = NoReply
    /\ env = [signals |-> 0, changes |-> 0, last |-> NoneObserved]

SetterNext ==
    \/ Discovery(1, SetterAnnounced, MaxClients, {"v1"})
    \/ Calls(ToolNamesOf(SetterPlugins, SetterAnnounced), ArgumentInputs)
    \/ SendReply

SetterSpec == SetterInit /\ [][SetterNext]_vars

(***************************************************************************)
(* C32                                                                     *)
(***************************************************************************)
\* _resolve_tool returns in this step
ResolveReturns == loop.pc = "call_resolve" /\ loop'.pc = "call_exec"

\* what _resolve_tool returns is a tracked instance with a declared method,
\* or with a declared property that is not read-only
ResolveSound ==
    (ResolveReturns /\ loop'.target.found)
    => LET hit == loop'.target
       IN /\ hit.state \in TrackedRefs
          /\ hit.kind \in {"method", "property"}
          /\ hit.kind = "method"
                => hit.item \in NamesOf(plugins[heap[hit.state].plugin].methods)
          /\ hit.kind = "property"
                => \E q \in Range(plugins[heap[hit.state].plugin].properties) :
                        q.name = hit.item /\ ~q.readonly

\* name is <prefix>set_<property> for a read-only property of a tracked
\* instance whose plugin declares no method of that sanitized name
ReadonlySetterName(name) ==
    \E h \in TrackedRefs :
        \E q \in Range(plugins[heap[h].plugin].properties) :
            /\ q.readonly
            /\ name = ToolPrefix(heap[h]) \o <<"s", "e", "t", "_">>
                          \o Sanitize(q.name)
            /\ \A m \in Range(plugins[heap[h].plugin].methods) :
                  Sanitize(m.name) # <<"s", "e", "t", "_">> \o Sanitize(q.name)

ReadonlySetterUnresolved ==
    (ResolveReturns /\ ReadonlySetterName(loop.name)) => ~loop'.target.found

\* C32: tool resolution is sound: whenever _resolve_tool returns (state,
\* kind, item), state is an instance in the registry and item is a declared
\* method of its plugin (kind "method") or a declared property with
\* readonly=false (kind "property"); a name of the form
\* <prefix>set_<read-only property> with no matching method never resolves.
Claim_C32 == [][ResolveSound /\ ReadonlySetterUnresolved]_vars

\* the soundness half of C32 alone
ResolveSoundAlways == [][ResolveSound]_vars

\* _resolve_tool is about to look up the setter name of a read-only property
ReadonlySetterAsked ==
    loop.pc = "call_resolve" /\ ReadonlySetterName(loop.name)

(***************************************************************************)
(* Specification of the release runs: two discovery contexts and the       *)
(* protocol context take the lock in turn, each context running on once it *)
(* holds the lock                                                          *)
(***************************************************************************)
ReleaseAnnounced == {<<1, N_b>>}

ReleaseNext ==
    \/ Discovery(1, ReleaseAnnounced, ConcurrentClients, {"v1"})
    \/ Discovery(2, ReleaseAnnounced, ConcurrentClients, {"v1"})
    \/ HandleListTools
    \/ ListToolsBody
    \/ \E name \in LockToolNames : HandleCallTool(name, "{}")
    \/ CallResolve
    \/ CallUnknown
    \/ CallWriteProperty
    \/ CallMethod
    \/ SendReply

\* the steps a context takes inside a "with self._lock" block
LockedStep ==
    \/ \E t \in Threads : DiscoveredCheck(t) \/ DiscoveredInsert(t)
                            \/ RemovedPop(t)
    \/ ListToolsBody
    \/ CallResolve

\* a thread that holds the lock keeps running, and so does one that may take
\* the lock again and again
ReleaseSpec ==
    /\ Init
    /\ [][ReleaseNext]_vars
    /\ WF_vars(LockedStep)
    /\ WF_vars(SendReply)
    /\ \A t \in Threads : SF_vars(DiscoveredLock2(t))

(***************************************************************************)
(* C33                                                                     *)
(***************************************************************************)
\* where the protocol context and a discovery context are inside a
\* "with self._lock" block
LoopLocked == {"tools_body", "resources_body", "call_resolve", "read_get"}
DiscLocked == {"disc_check", "disc_insert", "rem_pop"}

\* a context holds the lock exactly while it is inside a block: it has
\* released the lock when it leaves the block or ends, and it does not hold
\* it where it is about to enter a block
HeldInsideOnly ==
    /\ lock = "loop" <=> loop.pc \in LoopLocked
    /\ \A t \in Threads : lock = DName(t) <=> dthread[t].pc \in DiscLocked

\* the lock is taken only when it is free
TakenWhenFree == (lock' # lock /\ lock' # "free") => lock = "free"

\* a held lock is released
HeldIsReleased == (lock # "free") ~> (lock = "free")

\* a callback waiting for the lock at line 477 gets it and ends
WaiterEnds ==
    \A t \in Threads :
        (dthread[t].pc = "disc_lock2") ~> (dthread[t].pc = "idle")

\* C33: the registry lock is always released and never re-acquired by its
\* holder: every path that acquires it, the early return for a duplicate
\* 'appeared' and the early returns on a match inside tool resolution
\* included, releases it before the operation ends; no operation acquires
\* the lock while holding it; so no operation blocks on the lock forever.
Thm_C33 ==
    /\ []HeldInsideOnly
    /\ [][TakenWhenFree]_vars
    /\ HeldIsReleased
    /\ WaiterEnds

\* a duplicate 'appeared' is at its membership test, holding the lock, while
\* the other discovery context waits for the lock at line 477
Witness_C33 ==
    \E t, u \in Threads :
        /\ dthread[t].pc = "disc_check"
        /\ DictHas(instances, dthread[t].key)
        /\ lock = DName(t)
        /\ dthread[u].pc = "disc_lock2"

\* tool resolution holds the lock and is about to return on a match
ResolveHoldsLock ==
    /\ loop.pc = "call_resolve"
    /\ lock = "loop"
    /\ ResolveTool(instances, loop.name).found

(***************************************************************************)
(* Specification of the re-appearance runs: the instances "b" and "c" of   *)
(* plugin "a" appear, depart and appear again while their signals "m" and  *)
(* "n" are delivered, to orphaned handles too, and read                    *)
(***************************************************************************)
\* client handles built in the re-appearance runs
ReappearClients == 2
\* signal payloads delivered in the re-appearance runs
ReappearBurst == 2
ReappearAnnounced == {<<1, N_b>>, <<1, N_c>>}
ReappearUris ==
    {AnyUrl(N_a, a[2], <<K_signal, s>>) :
        a \in ReappearAnnounced, s \in {N_m, N_n}}

ReappearNext ==
    \/ Discovery(1, ReappearAnnounced, ReappearClients, {"v1"})
    \/ \E c \in 1..ReappearClients, s \in {N_m, N_n} :
            SignalCb(c, s, ReappearBurst)
    \/ Reads(ReappearUris)
    \/ SendReply

ReappearSpec == Init /\ [][ReappearNext]_vars

(***************************************************************************)
(* C34                                                                     *)
(***************************************************************************)
\* handle c was built for a plugin and instance id that had a handle before
Reappeared(c) ==
    \E h \in 1..(c - 1) :
        /\ heap[h].plugin = heap[c].plugin
        /\ heap[h].instance_id = heap[c].instance_id

\* the payloads delivered to the callback of signal s on handle c that a
\* mailbox of SIGNAL_MAILBOX_SIZE entries still holds, oldest first
OwnPayloads(c, s) ==
    LET n == heap[c].sent[s]
        kept == IF n > SIGNAL_MAILBOX_SIZE THEN SIGNAL_MAILBOX_SIZE ELSE n
    IN [i \in 1..kept |-> n - kept + i]

\* a state is built with a client no earlier state has and with an empty
\* mailbox for every declared signal
BuiltFresh ==
    Len(heap') = Len(heap) + 1
    => LET new == heap'[Len(heap')]
       IN /\ \A h \in 1..Len(heap) : heap[h].client # new.client
          /\ DOMAIN new.signal_mailboxes
                = NamesOf(plugins[new.plugin].signals)
          /\ \A s \in DOMAIN new.signal_mailboxes :
                new.signal_mailboxes[s] = <<>>

\* every mailbox holds payloads delivered to its own handle only
MailboxOwn ==
    \A c \in 1..Len(heap) :
        \A s \in DOMAIN heap[c].signal_mailboxes :
            heap[c].signal_mailboxes[s] = OwnPayloads(c, s)

\* a signal read that found the state c answers with the payloads delivered
\* to c
ReadOwn ==
    ( /\ loop.pc = "read_exec"
      /\ loop'.pc = "idle"
      /\ loop.state # 0
      /\ PathParts(loop.uri)[1] = K_signal
      /\ PathParts(loop.uri)[2] \in DOMAIN heap[loop.state].signal_mailboxes )
    => reply'.value = MailboxToJson(OwnPayloads(loop.state,
                                                PathParts(loop.uri)[2]))

\* C34: when a key goes Tracked, Absent, Tracked again, the new
\* InstanceState has a newly constructed handle and a fresh empty mailbox
\* for every declared signal: payloads received in the earlier Tracked
\* period, or delivered to the orphaned handle's callbacks after the
\* departure, never appear in a signal read of the re-appeared instance.
Thm_C34 == []MailboxOwn /\ [][BuiltFresh /\ ReadOwn]_vars

\* a read of signal "m" has found the re-appeared instance, whose mailbox is
\* empty, while the orphaned handle of the earlier period holds two payloads
Witness_C34 ==
    /\ loop.pc = "read_exec"
    /\ loop.state # 0
    /\ PathParts(loop.uri) = <<K_signal, N_m>>
    /\ Reappeared(loop.state)
    /\ DictHas(instances, InstanceKey(heap[loop.state].plugin_name,
                                      heap[loop.state].instance_id))
    /\ DictGet(instances, InstanceKey(heap[loop.state].plugin_name,
                                      heap[loop.state].instance_id))
          = loop.state
    /\ heap[loop.state].signal_mailboxes[N_m] = <<>>
    /\ \E h \in 1..(loop.state - 1) :
          /\ heap[h].instance_id = heap[loop.state].instance_id
          /\ heap[h].signal_mailboxes[N_m] = <<1, 2>>

(***************************************************************************)
(* C35                                                                     *)
(***************************************************************************)
\* the remote side delivers a payload for signal s to the callback
\* registered on handle c
SignalDelivered(c, s) ==
    /\ c \in 1..Len(heap)
    /\ s \in heap[c].receive_cbs
    /\ env'.signals = env.signals + 1
    /\ heap'[c].sent[s] = heap[c].sent[s] + 1

\* the delivery appends to the mailbox of (c, s) and leaves every other
\* mailbox, every property cache and the registry as they were
OwnMailboxOnly(c, s) ==
    /\ heap'[c].signal_mailboxes[s]
          = MailboxAppend(heap[c].signal_mailboxes[s], heap'[c].sent[s])
    /\ Len(heap') = Len(heap)
    /\ \A d \in 1..Len(heap) :
          /\ \A r \in DOMAIN heap[d].signal_mailboxes :
                (d # c \/ r # s)
                => heap'[d].signal_mailboxes[r] = heap[d].signal_mailboxes[r]
          /\ heap'[d].property_cache = heap[d].property_cache
          /\ heap'[d].client = heap[d].client
    /\ instances' = instances

\* C35: each signal callback registered during 'appeared' appends only to
\* the mailbox of its own (instance, signal) pair: delivering a payload for
\* signal s of instance i leaves every other mailbox (other signals of i,
\* all signals of other instances), every property cache and the registry
\* mapping unchanged, for plugins that declare several signals.
Thm_C35 ==
    [][\A c \in 1..ReappearClients, s \in {N_m, N_n} :
            SignalDelivered(c, s) => OwnMailboxOnly(c, s)]_vars

\* "b" and "c" of plugin "a", which declares the signals "m" and "n", are
\* tracked; one payload for "m" of the first has been delivered and is the
\* only mailbox entry there is
Witness_C35 ==
    /\ Len(instances) = 2
    /\ Len(heap) = 2
    /\ env.signals = 1
    /\ NamesOf(plugins[heap[1].plugin].signals) = {N_m, N_n}
    /\ heap[1].signal_mailboxes[N_m] = <<1>>
    /\ heap[1].signal_mailboxes[N_n] = <<>>
    /\ \A s \in {N_m, N_n} : heap[2].signal_mailboxes[s] = <<>>

=============================================================================
